---------------------------- MODULE Spec2Model ----------------------------
(***************************************************************************)
(* claudesh (src/src/main.rs): the subprocess runner run_bash with its     *)
(* stderr drain thread, and the interactive failure-recovery flow.         *)
(*                                                                         *)
(* Text is modelled as the sequence of its UTF-8 bytes (numbers 0..255):   *)
(* a Rust String is its byte sequence, String::len is Len, str::contains   *)
(* is a sub-sequence search.                                               *)
(*                                                                         *)
(* Two specifications share the definitions below:                         *)
(*   SpecRun  one run_bash call after another, step by step: the main      *)
(*            thread, the drain thread, the shell child with its pipe and  *)
(*            a background process that may inherit the pipe;              *)
(*   LiveRun  SpecRun with the fairness of the two threads.                *)
(***************************************************************************)
EXTENDS Integers, Sequences, FiniteSets, TLC

\* ------------------------------------------------------------------ bounds

\* STDERR_CAPTURE_LIMIT is 1024 * 1024 in the source (main.rs:12) and the
\* read buffer is 4096 bytes (main.rs:736).  Both are scaled down here, the
\* buffer smaller than the limit as in the source, so that TLC can produce
\* streams longer than the limit and chunks that straddle it.
STDERR_CAPTURE_LIMIT == 7
BUF_SIZE == 4
\* Capacity of the kernel pipe between the child and the drain thread.
PIPE_CAP == 6
\* Number of write calls the child side makes in one run.
MaxWrites == 2

\* --------------------------------------------------------------- byte text

Min(a, b) == IF a < b THEN a ELSE b

Take(s, n) == SubSeq(s, 1, Min(n, Len(s)))

Drop(s, n) == SubSeq(s, n + 1, Len(s))

StartsWith(s, p) == Len(p) <= Len(s) /\ SubSeq(s, 1, Len(p)) = p

\* str::contains
Contains(s, p) ==
    \E i \in 0..(Len(s) - Len(p)) : SubSeq(s, i + 1, i + Len(p)) = p

\* Number of places where p occurs in s
CountOcc(s, p) ==
    Cardinality({ i \in 0..(Len(s) - Len(p)) : SubSeq(s, i + 1, i + Len(p)) = p })

\* U+FFFD REPLACEMENT CHARACTER in UTF-8
REPLACEMENT == <<239, 191, 189>>

IsCont(b) == b >= 128 /\ b <= 191

\* Number of bytes the UTF-8 sequence led by byte b needs; 0 for a byte that
\* cannot lead a sequence.
Utf8Width(b) ==
    IF b < 128 THEN 1
    ELSE IF b >= 194 /\ b <= 223 THEN 2
    ELSE IF b >= 224 /\ b <= 239 THEN 3
    ELSE IF b >= 240 /\ b <= 244 THEN 4
    ELSE 0

\* Whether c may follow the lead byte b as its first continuation byte.
SecondOk(b, c) ==
    IF b = 224 THEN c >= 160 /\ c <= 191
    ELSE IF b = 237 THEN c >= 128 /\ c <= 159
    ELSE IF b = 240 THEN c >= 144 /\ c <= 191
    ELSE IF b = 244 THEN c >= 128 /\ c <= 143
    ELSE IsCont(c)

\* Length of the longest prefix of s (s not empty) that is the start of a
\* well-formed sequence, and whether that prefix is a complete sequence.
Utf8Scan(s) ==
    LET w == Utf8Width(s[1]) IN
    IF w = 0 THEN [len |-> 1, ok |-> FALSE]
    ELSE IF w = 1 THEN [len |-> 1, ok |-> TRUE]
    ELSE IF Len(s) < 2 \/ ~SecondOk(s[1], s[2]) THEN [len |-> 1, ok |-> FALSE]
    ELSE IF w = 2 THEN [len |-> 2, ok |-> TRUE]
    ELSE IF Len(s) < 3 \/ ~IsCont(s[3]) THEN [len |-> 2, ok |-> FALSE]
    ELSE IF w = 3 THEN [len |-> 3, ok |-> TRUE]
    ELSE IF Len(s) < 4 \/ ~IsCont(s[4]) THEN [len |-> 3, ok |-> FALSE]
    ELSE [len |-> 4, ok |-> TRUE]

\* String::from_utf8_lossy: well-formed sequences are kept, every maximal
\* ill-formed run of bytes becomes one U+FFFD (three bytes).
from_utf8_lossy(s) ==
    LET lossy[i \in 1..(Len(s) + 1)] ==
            IF i > Len(s) THEN <<>>
            ELSE LET r == Utf8Scan(Drop(s, i - 1)) IN
                 (IF r.ok THEN SubSeq(s, i, i + r.len - 1) ELSE REPLACEMENT)
                     \o lossy[i + r.len]
    IN lossy[1]

\* --------------------------------------------------------- classification

\* char::is_whitespace on the ASCII range (the Unicode spaces beyond it are
\* multi-byte and are not used in the lines of this model)
IsSpace(b) == b \in {9, 10, 11, 12, 13, 32}

RECURSIVE TrimStart(_)
TrimStart(s) ==
    IF s # <<>> /\ IsSpace(s[1]) THEN TrimStart(Tail(s)) ELSE s

RECURSIVE TrimEnd(_)
TrimEnd(s) ==
    IF s # <<>> /\ IsSpace(s[Len(s)]) THEN TrimEnd(SubSeq(s, 1, Len(s) - 1)) ELSE s

\* str::trim
Trim(s) == TrimEnd(TrimStart(s))

\* str::to_lowercase on the ASCII range
ToLower(s) == [i \in 1..Len(s) |-> IF s[i] >= 65 /\ s[i] <= 90 THEN s[i] + 32 ELSE s[i]]

\* Option values
None == [some |-> FALSE, v |-> <<>>]
Some(x) == [some |-> TRUE, v |-> x]
NoneInt == [some |-> FALSE, v |-> 0]

\* str::strip_prefix
StripPrefix(s, p) == IF StartsWith(s, p) THEN Some(Drop(s, Len(p))) ELSE None

\* Index of the first occurrence of p in s, 0 when there is none (str::find)
Find(s, p) ==
    IF Contains(s, p)
    THEN CHOOSE i \in 1..(Len(s) - Len(p) + 1) :
           /\ SubSeq(s, i, i + Len(p) - 1) = p
           /\ \A j \in 1..(i - 1) : SubSeq(s, j, j + Len(p) - 1) # p
    ELSE 0

\* Index of the last occurrence of p in s, 0 when there is none (str::rfind)
RFind(s, p) ==
    IF Contains(s, p)
    THEN CHOOSE i \in 1..(Len(s) - Len(p) + 1) :
           /\ SubSeq(s, i, i + Len(p) - 1) = p
           /\ \A j \in (i + 1)..(Len(s) - Len(p) + 1) : SubSeq(s, j, j + Len(p) - 1) # p
    ELSE 0

IsDigit(b) == b >= 48 /\ b <= 57

\* The digits of s from position i on, accumulated into acc with the sign
\* sgn, as i32 parsing does: None on overflow.
RECURSIVE ParseDigits(_, _, _, _)
ParseDigits(s, i, acc, sgn) ==
    IF i > Len(s) THEN [some |-> TRUE, v |-> acc]
    ELSE LET d == s[i] - 48 IN
         IF sgn = 1
         THEN IF acc > 214748364 \/ (acc = 214748364 /\ d > 7) THEN NoneInt
              ELSE ParseDigits(s, i + 1, acc * 10 + d, sgn)
         ELSE IF acc < -214748364 \/ (acc = -214748364 /\ d > 8) THEN NoneInt
              ELSE ParseDigits(s, i + 1, acc * 10 - d, sgn)

\* str::parse::<i32>().ok(): an optional sign and at least one digit
ParseI32(s) ==
    LET signed == s # <<>> /\ s[1] \in {43, 45}
        digits == IF signed THEN Tail(s) ELSE s
    IN IF digits = <<>> \/ \E i \in 1..Len(digits) : ~IsDigit(digits[i])
       THEN NoneInt
       ELSE ParseDigits(digits, 1, 0, IF signed /\ s[1] = 45 THEN -1 ELSE 1)

\* The state around two calls of classify_input on one line.
VARIABLES
    cpc,        \* first: before the first call; mid: between the calls; done
    c_input,    \* the line
    c_env,      \* the value of PATH in the process environment
    c_cwd,      \* the current directory
    c_paths,    \* path_commands, built at the start of the session
    c_out,      \* what the last call returned
    c_prev      \* what the call before it returned

clsVars == <<cpc, c_input, c_env, c_cwd, c_paths, c_out, c_prev>>

\* No call of classify_input has returned.
NoOutput == [kind |-> "none", arg |-> <<>>, code |-> NoneInt]

\* The classifier variables while the classifier is not looked at.
ClassifierIdle ==
    /\ cpc = "none"
    /\ c_input = <<>>
    /\ c_env = "none"
    /\ c_cwd = "none"
    /\ c_paths = {}
    /\ c_out = NoOutput
    /\ c_prev = NoOutput

\* The values PATH takes: a directory that holds ls, and an empty one.
PathValues == {"/bin", "/empty"}

\* lines 699-713: the names of the entries of the directories of PATH
build_path_command_set(path_var) ==
    IF path_var = "/bin" THEN { <<108, 115>> } ELSE {}

SHELL_BUILTINS ==
    {
      <<97, 108, 105, 97, 115>>,    \* "alias"
      <<117, 110, 97, 108, 105, 97, 115>>,    \* "unalias"
      <<115, 101, 116>>,    \* "set"
      <<115, 104, 111, 112, 116>>,    \* "shopt"
      <<116, 121, 112, 101>>,    \* "type"
      <<104, 97, 115, 104>>,    \* "hash"
      <<117, 108, 105, 109, 105, 116>>,    \* "ulimit"
      <<117, 109, 97, 115, 107>>,    \* "umask"
      <<119, 97, 105, 116>>,    \* "wait"
      <<106, 111, 98, 115>>,    \* "jobs"
      <<102, 103>>,    \* "fg"
      <<98, 103>>,    \* "bg"
      <<100, 105, 115, 111, 119, 110>>,    \* "disown"
      <<98, 117, 105, 108, 116, 105, 110>>,    \* "builtin"
      <<99, 111, 109, 109, 97, 110, 100>>,    \* "command"
      <<100, 101, 99, 108, 97, 114, 101>>,    \* "declare"
      <<108, 111, 99, 97, 108>>,    \* "local"
      <<114, 101, 97, 100, 111, 110, 108, 121>>,    \* "readonly"
      <<116, 121, 112, 101, 115, 101, 116>>,    \* "typeset"
      <<108, 101, 116>>,    \* "let"
      <<101, 118, 97, 108>>,    \* "eval"
      <<101, 120, 101, 99>>,    \* "exec"
      <<116, 114, 97, 112>>,    \* "trap"
      <<114, 101, 116, 117, 114, 110>>,    \* "return"
      <<115, 104, 105, 102, 116>>,    \* "shift"
      <<103, 101, 116, 111, 112, 116, 115>>,    \* "getopts"
      <<114, 101, 97, 100>>,    \* "read"
      <<109, 97, 112, 102, 105, 108, 101>>,    \* "mapfile"
      <<114, 101, 97, 100, 97, 114, 114, 97, 121>>,    \* "readarray"
      <<112, 114, 105, 110, 116, 102>>,    \* "printf"
      <<101, 99, 104, 111>>,    \* "echo"
      <<116, 101, 115, 116>>,    \* "test"
      <<116, 114, 117, 101>>,    \* "true"
      <<102, 97, 108, 115, 101>>,    \* "false"
      <<102, 111, 114>>,    \* "for"
      <<119, 104, 105, 108, 101>>,    \* "while"
      <<105, 102>>,    \* "if"
      <<99, 97, 115, 101>>,    \* "case"
      <<115, 101, 108, 101, 99, 116>>,    \* "select"
      <<117, 110, 116, 105, 108>>,    \* "until"
      <<100, 111>>,    \* "do"
      <<100, 111, 110, 101>>,    \* "done"
      <<116, 104, 101, 110>>,    \* "then"
      <<101, 108, 115, 101>>,    \* "else"
      <<101, 108, 105, 102>>,    \* "elif"
      <<102, 105>>,    \* "fi"
      <<101, 115, 97, 99>>,    \* "esac"
      <<105, 110>> }    \* "in"

COMMAND_PREFIXES ==
    {
      <<115, 117, 100, 111, 32>>,    \* "sudo "
      <<101, 110, 118, 32>>,    \* "env "
      <<110, 111, 104, 117, 112, 32>>,    \* "nohup "
      <<116, 105, 109, 101, 32>>,    \* "time "
      <<110, 105, 99, 101, 32>>,    \* "nice "
      <<115, 116, 114, 97, 99, 101, 32>>,    \* "strace "
      <<119, 97, 116, 99, 104, 32>>,    \* "watch "
      <<120, 97, 114, 103, 115, 32>> }    \* "xargs "

\* The text with no split at c
BeforeByte_NoCut(s, c) == s

\* The first piece of s.split(c)
BeforeByte(s, c) ==
    IF \E i \in 1..Len(s) : s[i] = c
    THEN SubSeq(s, 1, (CHOOSE i \in 1..Len(s) :
                          s[i] = c /\ \A j \in 1..(i - 1) : s[j] # c) - 1)
    ELSE s

\* split_whitespace().next().unwrap_or("")
FirstWord(s) ==
    LET t == TrimStart(s) IN
    IF \E i \in 1..Len(t) : IsSpace(t[i])
    THEN SubSeq(t, 1, (CHOOSE i \in 1..Len(t) :
                          IsSpace(t[i]) /\ \A j \in 1..(i - 1) : ~IsSpace(t[j])) - 1)
    ELSE t

\* The shell syntax characters without '~'
ShellSyntaxChars_NoTilde == {47, 46, 40, 123, 91, 36, 60, 62}

\* '/' '.' '~' '(' '{' '[' '$' '<' '>'
ShellSyntaxChars == {47, 46, 126, 40, 123, 91, 36, 60, 62}

\* char::is_ascii_alphanumeric without the digits
IsAsciiAlnum_NoDigits(b) ==
    \/ b >= 65 /\ b <= 90
    \/ b >= 97 /\ b <= 122

\* char::is_ascii_alphanumeric
IsAsciiAlnum(b) ==
    \/ IsDigit(b)
    \/ b >= 65 /\ b <= 90
    \/ b >= 97 /\ b <= 122

\* is_shell_command that looks the first token up in the directories of the
\* PATH of the moment, not in the set built at the start
is_shell_command_LivePath(input, path_commands) ==
    LET eq_pos == Find(input, <<61>>)
        before_eq == SubSeq(input, 1, eq_pos - 1)
        first_token ==
            BeforeByte(BeforeByte(BeforeByte(FirstWord(input), 124), 59), 38)
    IN \/ input # <<>> /\ input[1] \in ShellSyntaxChars
       \/ /\ eq_pos > 0
          /\ before_eq # <<>>
          /\ \A i \in 1..Len(before_eq) : before_eq[i] # 32
          /\ \A i \in 1..Len(before_eq) :
               IsAsciiAlnum(before_eq[i]) \/ before_eq[i] = 95
       \/ \E prefix \in COMMAND_PREFIXES : StartsWith(input, prefix)
       \/ first_token \in SHELL_BUILTINS
       \/ first_token \in build_path_command_set(c_env)
       \/ \E i \in 1..Len(first_token) : first_token[i] = 47

\* lines 644-697
is_shell_command(input, path_commands) ==
    LET eq_pos == Find(input, <<61>>)
        before_eq == SubSeq(input, 1, eq_pos - 1)
        first_token ==
            BeforeByte(BeforeByte(BeforeByte(FirstWord(input), 124), 59), 38)
    IN \/ input # <<>> /\ input[1] \in ShellSyntaxChars
       \/ /\ eq_pos > 0
          /\ before_eq # <<>>
          /\ \A i \in 1..Len(before_eq) : before_eq[i] # 32
          /\ \A i \in 1..Len(before_eq) :
               IsAsciiAlnum(before_eq[i]) \/ before_eq[i] = 95
       \/ \E prefix \in COMMAND_PREFIXES : StartsWith(input, prefix)
       \/ first_token \in SHELL_BUILTINS
       \/ first_token \in path_commands
       \/ \E i \in 1..Len(first_token) : first_token[i] = 47

\* An InputKind value: its variant, its text and, for Exit, its code
Kind(k, text) == [kind |-> k, arg |-> text, code |-> NoneInt]

\* strip_prefix(p1) alone, with no second try
StripEither_FirstOnly(s, p1, p2) == StripPrefix(s, p1)

\* strip_prefix(p1).or_else(|| strip_prefix(p2))
StripEither(s, p1, p2) ==
    IF StartsWith(s, p1) THEN StripPrefix(s, p1) ELSE StripPrefix(s, p2)

\* classify_input with the test of "?" placed before the test of "??"
classify_input_ExplainBeforeAsk(input, path_commands) ==
    LET bang == StripEither(input, <<33, 32>>, <<33>>)
        ask == StripEither(input, <<63, 63, 32>>, <<63, 63>>)
        explain == StripEither(input, <<63, 32>>, <<63>>)
    IN
    IF StartsWith(input, <<35>>) THEN Kind("Comment", <<>>)
    ELSE IF input \in {<<101, 120, 105, 116>>, <<113, 117, 105, 116>>, <<108, 111, 103, 111, 117, 116>>}
        THEN Kind("Exit", <<>>)
    ELSE IF StartsWith(input, <<101, 120, 105, 116, 32>>)
        THEN [kind |-> "Exit", arg |-> <<>>,
              code |-> ParseI32(Trim(Drop(input, 5)))]
    ELSE IF input = <<104, 101, 108, 112>> THEN Kind("Help", <<>>)
    ELSE IF input = <<104, 105, 115, 116, 111, 114, 121>> THEN Kind("History", <<>>)
    ELSE IF bang.some /\ Trim(bang.v) # <<>> THEN Kind("ForceBash", Trim(bang.v))
    ELSE IF explain.some /\ Trim(explain.v) # <<>> THEN Kind("Explain", Trim(explain.v))
    ELSE IF ask.some /\ Trim(ask.v) # <<>> THEN Kind("Ask", Trim(ask.v))
    ELSE IF input = <<99, 100>> THEN Kind("Cd", <<>>)
    ELSE IF StartsWith(input, <<99, 100, 32>>) THEN Kind("Cd", Trim(Drop(input, 3)))
    ELSE IF StartsWith(input, <<101, 120, 112, 111, 114, 116, 32>>)
        THEN Kind("Export", Trim(Drop(input, 7)))
    ELSE IF StartsWith(input, <<117, 110, 115, 101, 116, 32>>)
        THEN Kind("Unset", Trim(Drop(input, 6)))
    ELSE IF StartsWith(input, <<115, 111, 117, 114, 99, 101, 32>>)
        THEN Kind("Source", Trim(Drop(input, 7)))
    ELSE IF StartsWith(input, <<46, 32>>) THEN Kind("Source", Trim(Drop(input, 2)))
    ELSE IF is_shell_command(input, path_commands) THEN Kind("ShellCommand", input)
    ELSE Kind("NaturalLanguage", input)

\* lines 564-642
classify_input(input, path_commands) ==
    LET bang == StripEither(input, <<33, 32>>, <<33>>)
        ask == StripEither(input, <<63, 63, 32>>, <<63, 63>>)
        explain == StripEither(input, <<63, 32>>, <<63>>)
    IN
    IF StartsWith(input, <<35>>) THEN Kind("Comment", <<>>)
    ELSE IF input \in {<<101, 120, 105, 116>>, <<113, 117, 105, 116>>, <<108, 111, 103, 111, 117, 116>>}
        THEN Kind("Exit", <<>>)
    ELSE IF StartsWith(input, <<101, 120, 105, 116, 32>>)
        THEN [kind |-> "Exit", arg |-> <<>>,
              code |-> ParseI32(Trim(Drop(input, 5)))]
    ELSE IF input = <<104, 101, 108, 112>> THEN Kind("Help", <<>>)
    ELSE IF input = <<104, 105, 115, 116, 111, 114, 121>> THEN Kind("History", <<>>)
    ELSE IF bang.some /\ Trim(bang.v) # <<>> THEN Kind("ForceBash", Trim(bang.v))
    ELSE IF ask.some /\ Trim(ask.v) # <<>> THEN Kind("Ask", Trim(ask.v))
    ELSE IF explain.some /\ Trim(explain.v) # <<>> THEN Kind("Explain", Trim(explain.v))
    ELSE IF input = <<99, 100>> THEN Kind("Cd", <<>>)
    ELSE IF StartsWith(input, <<99, 100, 32>>) THEN Kind("Cd", Trim(Drop(input, 3)))
    ELSE IF StartsWith(input, <<101, 120, 112, 111, 114, 116, 32>>)
        THEN Kind("Export", Trim(Drop(input, 7)))
    ELSE IF StartsWith(input, <<117, 110, 115, 101, 116, 32>>)
        THEN Kind("Unset", Trim(Drop(input, 6)))
    ELSE IF StartsWith(input, <<115, 111, 117, 114, 99, 101, 32>>)
        THEN Kind("Source", Trim(Drop(input, 7)))
    ELSE IF StartsWith(input, <<46, 32>>) THEN Kind("Source", Trim(Drop(input, 2)))
    ELSE IF is_shell_command(input, path_commands) THEN Kind("ShellCommand", input)
    ELSE Kind("NaturalLanguage", input)

\* ------------------------------------------------------------ run_bash data

COLOR_RED == <<27, 91, 51, 49, 109>>
COLOR_RESET == <<27, 91, 48, 109>>
NEWLINE == <<10>>

\* "failed to execute: "
FailedToExecute ==
    <<102, 97, 105, 108, 101, 100, 32, 116, 111, 32,
      101, 120, 101, 99, 117, 116, 101, 58, 32>>

\* Display texts of the io::Error a failed spawn gives:
\* "No such file or directory (os error 2)", "Permission denied (os error 13)".
SpawnErrors ==
    { <<78, 111, 32, 115, 117, 99, 104, 32, 102, 105, 108, 101, 32, 111, 114, 32, 100, 105, 114, 101, 99, 116, 111, 114, 121, 32, 40, 111, 115, 32, 101, 114, 114, 111, 114, 32, 50, 41>>,
      <<80, 101, 114, 109, 105, 115, 115, 105, 111, 110, 32, 100, 101, 110, 105, 101, 100, 32, 40, 111, 115, 32, 101, 114, 114, 111, 114, 32, 49, 51, 41>> }

\* What one write call of the child side puts on its error stream:
\* "x", the ill-formed byte 0xFF, the two bytes of U+00E9, "EACCES".
Writes == { <<120>>, <<255>>, <<195, 169>>, <<69, 65, 67, 67, 69, 83>> }

\* How a child ends: std::process::ExitStatus.
ExitStatuses ==
    { [kind |-> "code", v |-> 0], [kind |-> "code", v |-> 1],
      [kind |-> "code", v |-> 255], [kind |-> "signal", v |-> 9] }

NoStatus == [kind |-> "none", v |-> 0]

\* ExitStatus::code
StatusCode(s) == IF s.kind = "code" THEN s.v ELSE -1

NoResult == [exit_code |-> -1, captured_stderr |-> <<>>]

VARIABLES
    rpc,        \* main thread in run_bash: idle, wait, join, ret
    shell,      \* the bash child: none, running, exited (zombie), reaped
    status,     \* the ExitStatus the child ended with
    bg,         \* a background process of the child holds the pipe's write end
    nwrites,    \* write calls made on the pipe in this run
    sent,       \* every byte written to the pipe in this run, in order
    pipe,       \* bytes in the pipe, not yet read (stderr_pipe)
    rdOpen,     \* the read end of the pipe is open
    dpc,        \* drain thread: none, read, forward, capture, done
    buf,        \* buf[..n], the chunk of the current iteration
    captured,   \* the drain thread's capture buffer
    ret,        \* the String the drain thread returned
    term,       \* bytes run_bash wrote to the real error stream in this run
    waitOk,     \* child.wait() returned Ok
    result,     \* the RunResult of the call
    started,    \* drain threads this call started
    rdErr,      \* a read of the pipe failed in this run
    alive       \* drain threads running, of this call or an earlier one

runVars ==
    <<rpc, shell, status, bg, nwrites, sent, pipe, rdOpen, dpc, buf,
      captured, ret, term, waitOk, result, started, rdErr, alive>>

VARIABLES
    mode,             \* how main was invoked: cflag, script, interactive, piped
    pc,               \* where the main thread of the session is
    claude_available, \* which::which("claude").is_ok() at session start
    yolo,             \* config.yolo
    rc,               \* the lines of claudeshrc are being executed
    stack,            \* last_exit of every handle_source call in progress
    last_exit,        \* last_exit of the session loop
    nlines,           \* lines read so far
    line_kind,        \* the InputKind of the line read last ("none": not classified)
    printed,          \* the message printed for that line by its match arm
    line_code,        \* the code of that line when it is Exit(code)
    executed,         \* a line of the session was handed to its match
    nl_choice,        \* the choice at run / edit / skip on which the run in progress was called
    cwd,              \* the session's current directory
    env,              \* the environment of the claudesh process: name -> value
    ended,            \* what ended the session: exit, eof, cflag, script_error
    run_cmd,          \* the command of the run_bash call in progress
    site,             \* the call site of that run_bash call
    ai_site,          \* the call site of the call_claude call in progress
    error_context,    \* what do_ai_error_analysis hands to call_claude
    f_cmd,            \* offer_error_help: cmd
    f_result,         \* offer_error_help: result
    f_retry,          \* offer_error_help: retry
    perm_choice,      \* offer_error_help: choice, the answer to the elevation prompt
    answers,          \* the answers read at the prompts of the recovery flow so far
    help,             \* do_ai_error_analysis: help, what call_claude returned
    shown_expl,       \* the text do_ai_error_analysis printed as explanation
    shown_exit,       \* the exit code printed by the last fix offer
    suggested_cmd,    \* do_ai_error_analysis: suggested_cmd
    gen_cmd,          \* handle_natural_language_interactive: cmd, while it waits at the prompt
    events,           \* prompts, runs and AI calls of the recovery flow so far
    exit_status       \* the exit status of the claudesh process

\* The directory claudesh is started in, and the home directory.
StartDir == <<47, 119>>    \* "/w"
HomeDir == <<47, 104>>    \* "/h"

PWD == <<80, 87, 68>>
OLDPWD == <<79, 76, 68, 80, 87, 68>>

\* lines 189-190, 222-223, 324-325: the environment after startup; of the
\* variables claudesh inherits only PWD is kept track of
StartEnv == (PWD :> StartDir)

sessVars ==
    <<mode, pc, claude_available, yolo, rc, stack, last_exit, nlines, run_cmd,
      site, ai_site, error_context, f_cmd, f_result, f_retry, perm_choice,
      answers, help, shown_expl, shown_exit, suggested_cmd, gen_cmd, events,
      exit_status, line_kind, printed, line_code, executed, nl_choice, ended,
      cwd, env>>

\* Two recovery flows side by side, for two failed runs of one command that
\* get the same answers.
VARIABLES
    tw_cmd,        \* the command of both runs
    tw_streams,    \* what the child of each run wrote to its error stream
    tw_res,        \* the RunResult of each run
    tw_pc,         \* where each flow is: entry, a prompt, or end
    tw_shown       \* the prompts each flow has shown

twinVars == <<tw_cmd, tw_streams, tw_res, tw_pc, tw_shown>>

TwinIdle ==
    /\ tw_cmd = <<>>
    /\ tw_streams = << <<>>, <<>> >>
    /\ tw_res = << NoResult, NoResult >>
    /\ tw_pc = <<"none", "none">>
    /\ tw_shown = << <<>>, <<>> >>

vars == <<runVars, sessVars, clsVars, twinVars>>

NoContext == [cmd |-> <<>>, exit_code |-> -1, stderr |-> <<>>]

\* The session variables while only run_bash is looked at.
SessionIdle ==
    /\ mode = "none"
    /\ pc = "none"
    /\ claude_available = FALSE
    /\ yolo = FALSE
    /\ rc = FALSE
    /\ stack = <<>>
    /\ last_exit = 0
    /\ nlines = 0
    /\ line_kind = "none"
    /\ printed = "none"
    /\ line_code = NoneInt
    /\ executed = FALSE
    /\ nl_choice = None
    /\ cwd = StartDir
    /\ env = StartEnv
    /\ ended = "none"
    /\ run_cmd = <<>>
    /\ site = "none"
    /\ ai_site = "none"
    /\ error_context = NoContext
    /\ f_cmd = <<>>
    /\ f_result = NoResult
    /\ f_retry = NoResult
    /\ perm_choice = None
    /\ answers = <<>>
    /\ help = None
    /\ shown_expl = <<>>
    /\ shown_exit = -1
    /\ suggested_cmd = <<>>
    /\ gen_cmd = <<>>
    /\ events = <<>>
    /\ exit_status = -1

\* CaptureChunk that appends the whole chunk while the buffer is under the
\* limit
CaptureChunk_WholeChunk(cap, chunk) ==
    IF Len(cap) < STDERR_CAPTURE_LIMIT THEN cap \o chunk ELSE cap

\* lines 746-749: append up to the remaining quota
CaptureChunk(cap, chunk) ==
    IF Len(cap) < STDERR_CAPTURE_LIMIT
    THEN LET remaining == STDERR_CAPTURE_LIMIT - Len(cap)
         IN cap \o Take(chunk, Min(Len(chunk), remaining))
    ELSE cap

\* ExitCodeOf with a signalled child reported as -1 instead of the sentinel
ExitCodeOf_NoSentinel(ok, s) == IF ok THEN StatusCode(s) ELSE 1

\* lines 760-763
ExitCodeOf(ok, s) ==
    IF ok THEN (IF StatusCode(s) >= 0 THEN StatusCode(s) ELSE 1) ELSE 1

\* JoinReady of a main thread that does not wait for the drain thread
JoinReady_Detached == TRUE

\* The join of line 758 returns once the drain thread has finished.
JoinReady == dpc = "done"

\* SpawnFailureResult with the generic failure code instead of 127
SpawnFailureResult_Code1(msg) == [exit_code |-> 1, captured_stderr |-> msg]

\* lines 773-776
SpawnFailureResult(msg) == [exit_code |-> 127, captured_stderr |-> msg]

RunIdle ==
    /\ rpc = "idle"
    /\ shell = "none"
    /\ status = NoStatus
    /\ bg = FALSE
    /\ nwrites = 0
    /\ sent = <<>>
    /\ pipe = <<>>
    /\ rdOpen = FALSE
    /\ dpc = "none"
    /\ buf = <<>>
    /\ captured = <<>>
    /\ ret = <<>>
    /\ term = <<>>
    /\ waitOk = FALSE
    /\ result = NoResult
    /\ started = 0
    /\ rdErr = FALSE
    /\ alive = 0

InitRun == RunIdle /\ SessionIdle /\ ClassifierIdle /\ TwinIdle

\* lines 722-734: the spawn succeeds; the pipe is taken and the drain thread
\* started.
SpawnOk ==
    /\ rpc = "idle"
    /\ rpc' = "wait"
    /\ shell' = "running"
    /\ status' = NoStatus
    /\ bg' = FALSE
    /\ nwrites' = 0
    /\ sent' = <<>>
    /\ pipe' = <<>>
    /\ rdOpen' = TRUE
    /\ dpc' = "read"
    /\ buf' = <<>>
    /\ captured' = <<>>
    /\ ret' = <<>>
    /\ term' = <<>>
    /\ waitOk' = FALSE
    /\ result' = NoResult
    /\ started' = 1
    /\ rdErr' = FALSE
    /\ alive' = alive + 1
    /\ UNCHANGED <<sessVars, clsVars, twinVars>>

\* lines 770-777: the spawn fails
SpawnErr ==
    /\ rpc = "idle"
    /\ \E e \in SpawnErrors :
         LET msg == FailedToExecute \o e IN
         /\ term' = COLOR_RED \o msg \o COLOR_RESET \o NEWLINE
         /\ result' = SpawnFailureResult(msg)
    /\ rpc' = "ret"
    /\ shell' = "none"
    /\ status' = NoStatus
    /\ bg' = FALSE
    /\ nwrites' = 0
    /\ sent' = <<>>
    /\ pipe' = <<>>
    /\ rdOpen' = FALSE
    /\ dpc' = "none"
    /\ buf' = <<>>
    /\ captured' = <<>>
    /\ ret' = <<>>
    /\ waitOk' = FALSE
    /\ started' = 0
    /\ rdErr' = FALSE
    /\ UNCHANGED alive
    /\ UNCHANGED <<sessVars, clsVars, twinVars>>

\* The child, or a background process it left, writes to the pipe; a write
\* blocks while the pipe has no room for it.
ChildWrite ==
    /\ shell = "running" \/ bg
    /\ rdOpen
    /\ nwrites < MaxWrites
    /\ \E w \in Writes :
         /\ Len(pipe) + Len(w) <= PIPE_CAP
         /\ pipe' = pipe \o w
         /\ sent' = sent \o w
    /\ nwrites' = nwrites + 1
    /\ UNCHANGED <<rpc, shell, status, bg, rdOpen, dpc, buf, captured, ret,
                   term, waitOk, result, started, rdErr, alive>>
    /\ UNCHANGED <<sessVars, clsVars, twinVars>>

\* The shell exits, or is killed by a signal; a background process it
\* started may keep the write end of the pipe.
ChildExit ==
    /\ shell = "running"
    /\ shell' = "exited"
    /\ \E s \in ExitStatuses : status' = s
    /\ \E b \in BOOLEAN : bg' = b
    /\ UNCHANGED <<rpc, nwrites, sent, pipe, rdOpen, dpc, buf, captured, ret,
                   term, waitOk, result, started, rdErr, alive>>
    /\ UNCHANGED <<sessVars, clsVars, twinVars>>

\* The background process ends and closes its copy of the write end.
BgExit ==
    /\ bg
    /\ shell # "running"
    /\ bg' = FALSE
    /\ UNCHANGED <<rpc, shell, status, nwrites, sent, pipe, rdOpen, dpc, buf,
                   captured, ret, term, waitOk, result, started, rdErr, alive>>
    /\ UNCHANGED <<sessVars, clsVars, twinVars>>

WritersOpen == shell = "running" \/ bg

\* A drain loop that stops reading once the capture buffer is full
KeepsReading_UntilFull(cap) == Len(cap) < STDERR_CAPTURE_LIMIT

\* lines 738-752: the loop is left at Ok(0) and at Err only; the test of
\* line 746 guards the append, not the next read.
KeepsReading(cap) == TRUE

\* line 739, Ok(n): read returns what the pipe holds, at most the buffer
DrainRead ==
    /\ dpc = "read"
    /\ KeepsReading(captured)
    /\ pipe # <<>>
    /\ LET n == Min(Len(pipe), BUF_SIZE) IN
         /\ buf' = Take(pipe, n)
         /\ pipe' = Drop(pipe, n)
    /\ dpc' = "forward"
    /\ UNCHANGED <<rpc, shell, status, bg, nwrites, sent, rdOpen, captured,
                   ret, term, waitOk, result, started, rdErr, alive>>
    /\ UNCHANGED <<sessVars, clsVars, twinVars>>

\* lines 743-744
DrainForward ==
    /\ dpc = "forward"
    /\ term' = term \o buf
    /\ dpc' = "capture"
    /\ UNCHANGED <<rpc, shell, status, bg, nwrites, sent, pipe, rdOpen, buf,
                   captured, ret, waitOk, result, started, rdErr, alive>>
    /\ UNCHANGED <<sessVars, clsVars, twinVars>>

\* lines 746-749
DrainCapture ==
    /\ dpc = "capture"
    /\ captured' = CaptureChunk(captured, buf)
    /\ buf' = <<>>
    /\ dpc' = "read"
    /\ UNCHANGED <<rpc, shell, status, bg, nwrites, sent, pipe, rdOpen, ret,
                   term, waitOk, result, started, rdErr, alive>>
    /\ UNCHANGED <<sessVars, clsVars, twinVars>>

\* lines 740 and 754: end of stream once the pipe is empty and every write
\* end is closed; the thread returns the capture as a String and ends.
DrainEof ==
    /\ dpc = "read"
    /\ pipe = <<>>
    /\ ~WritersOpen
    /\ dpc' = "done"
    /\ ret' = from_utf8_lossy(captured)
    /\ rdOpen' = FALSE
    /\ alive' = alive - 1
    /\ UNCHANGED <<rpc, shell, status, bg, nwrites, sent, pipe, buf, captured,
                   term, waitOk, result, started, rdErr>>
    /\ UNCHANGED <<sessVars, clsVars, twinVars>>

\* lines 751 and 754: the read fails; the loop ends the same way
DrainReadErr ==
    /\ dpc = "read"
    /\ dpc' = "done"
    /\ ret' = from_utf8_lossy(captured)
    /\ rdOpen' = FALSE
    /\ pipe' = <<>>
    /\ rdErr' = TRUE
    /\ alive' = alive - 1
    /\ UNCHANGED <<rpc, shell, status, bg, nwrites, sent, buf, captured, term,
                   waitOk, result, started>>
    /\ UNCHANGED <<sessVars, clsVars, twinVars>>

\* line 757: wait returns once the child has ended
MainWait ==
    /\ rpc = "wait"
    /\ shell = "exited"
    /\ shell' = "reaped"
    /\ \E ok \in BOOLEAN : waitOk' = ok
    /\ rpc' = "join"
    /\ UNCHANGED <<status, bg, nwrites, sent, pipe, rdOpen, dpc, buf, captured,
                   ret, term, result, started, rdErr, alive>>
    /\ UNCHANGED <<sessVars, clsVars, twinVars>>

\* lines 758-768
MainJoin ==
    /\ rpc = "join"
    /\ JoinReady
    /\ result' = [exit_code |-> ExitCodeOf(waitOk, status),
                  captured_stderr |-> ret]
    /\ rpc' = "ret"
    /\ UNCHANGED <<shell, status, bg, nwrites, sent, pipe, rdOpen, dpc, buf,
                   captured, ret, term, waitOk, started, rdErr, alive>>
    /\ UNCHANGED <<sessVars, clsVars, twinVars>>

\* The caller takes the RunResult.
Return ==
    /\ rpc = "ret"
    /\ rpc' = "idle"
    /\ UNCHANGED <<shell, status, bg, nwrites, sent, pipe, rdOpen, dpc, buf,
                   captured, ret, term, waitOk, result, started, rdErr, alive>>
    /\ UNCHANGED <<sessVars, clsVars, twinVars>>

NextRun ==
    \/ SpawnOk
    \/ SpawnErr
    \/ ChildWrite
    \/ ChildExit
    \/ BgExit
    \/ DrainRead
    \/ DrainForward
    \/ DrainCapture
    \/ DrainEof
    \/ DrainReadErr
    \/ MainWait
    \/ MainJoin
    \/ Return

SpecRun == InitRun /\ [][NextRun]_vars

\* The fairness of the program's own threads: the main thread and the drain
\* thread keep running while they can.  A failing read is the environment's
\* choice, and so is everything the child and its background process do.
LiveRun ==
    /\ SpecRun
    /\ WF_vars(MainWait \/ MainJoin \/ Return)
    /\ WF_vars(DrainRead \/ DrainForward \/ DrainCapture \/ DrainEof)

\* ------------------------------------------------- the session and recovery

\* Bound on the lines one session reads, from all its sources together.
MaxLines == 2

\* What a session reads as a line: from the prompt, from piped stdin, from a
\* script, from claudeshrc or from a sourced file.
Lines ==
    {
      <<108, 115>>,    \* "ls"
      <<115, 117, 100, 111, 32, 108, 115>>,    \* "sudo ls"
      <<33, 32, 99, 100, 32, 47>>,    \* "! cd /"
      <<65, 61, 98>>,    \* "A=b"
      <<102, 105, 120, 32, 105, 116>>,    \* "fix it"
      <<101, 120, 105, 116>>,    \* "exit"
      <<101, 120, 105, 116, 32, 51>>,    \* "exit 3"
      <<101, 120, 105, 116, 32, 50, 53, 54>>,    \* "exit 256"
      <<101, 120, 105, 116, 32, 45, 49>>,    \* "exit -1"
      <<99, 100, 32, 47>>,    \* "cd /"
      <<101, 120, 112, 111, 114, 116, 32, 65, 61, 98>>,    \* "export A=b"
      <<117, 110, 115, 101, 116, 32, 65>>,    \* "unset A"
      <<115, 111, 117, 114, 99, 101, 32, 102>>,    \* "source f"
      <<35, 32, 99>>,    \* "# c"
      <<63, 32, 108, 115>>,    \* "? ls"
      <<63, 63, 32, 119, 104, 121>>,    \* "?? why"
      <<104, 101, 108, 112>>,    \* "help"
      <<104, 105, 115, 116, 111, 114, 121>>,    \* "history"
      <<>> }    \* ""

\* What the user types at a confirmation prompt (read_single_line); the empty
\* text is the end of the input.
Answers ==
    {
      <<>>,    \* ""
      <<121, 10>>,    \* "y\n"
      <<89, 101, 115, 10>>,    \* "Yes\n"
      <<32, 102, 10>>,    \* " f\n"
      <<102, 105, 120, 10>>,    \* "fix\n"
      <<114, 10>>,    \* "r\n"
      <<114, 117, 110, 10>>,    \* "run\n"
      <<101, 10>>,    \* "e\n"
      <<115, 10>> }    \* "s\n"

\* What the claude process writes to its stdout.
AiTexts ==
    {
      <<108, 115>>,    \* "ls"
      <<119, 104, 121, 10, 10, 108, 115>>,    \* "why\n\nls"
      <<96, 96, 96, 115, 104, 10, 108, 115, 10, 96, 96, 96>>,    \* "```sh\nls\n```"
      <<110, 111, 10, 108, 115>>,    \* "no\nls"
      <<32, 10>> }    \* " \n"

\* lines 1023-1031: how the claude process ended: it could not be run, it
\* ended with a failure status, or it ended well and wrote stdout.
ClaudeOutputs ==
    { [spawned |-> FALSE, success |-> FALSE, stdout |-> <<>>],
      [spawned |-> TRUE, success |-> FALSE, stdout |-> <<>>] }
        \cup { [spawned |-> TRUE, success |-> TRUE, stdout |-> t] : t \in AiTexts }

\* lines 1033-1052: what call_claude returns
call_claude(out) ==
    IF out.spawned /\ out.success
    THEN LET text == Trim(from_utf8_lossy(out.stdout)) IN
         IF text = <<>> THEN None ELSE Some(text)
    ELSE None

\* lines 1044 and 1049: the one-line diagnostic call_claude prints
ClaudeDiagnostic(out) ==
    IF ~out.spawned THEN "failed_to_run_claude"
    ELSE IF ~out.success THEN "claude_error"
    ELSE "none"

AiReplies == { call_claude(out) : out \in ClaudeOutputs }

\* What the user types after choosing to edit a generated command.
EditedLines == { <<>>, <<108, 115>> }

\* The command strings given with -c.
CflagCommands == { <<108, 115>> }

\* The PathCommandSet of the session: "ls".
PATH_COMMANDS == { <<108, 115>> }

\* What the child of one run_bash call of the session wrote to its error
\* stream: "x", "EACCES", and a text with "EACCES" after eight other bytes.
SessionStreams ==
    { <<120>>,
      <<69, 65, 67, 67, 69, 83>>,
      <<195, 169, 195, 169, 195, 169, 195, 169, 69, 65, 67, 67, 69, 83>> }

\* lines 738-753 run to the end of the stream: the capture buffer after a
\* stream read in full chunks
RECURSIVE DrainAll(_, _)
DrainAll(cap, stream) ==
    IF stream = <<>> THEN cap
    ELSE DrainAll(CaptureChunk(cap, Take(stream, BUF_SIZE)), Drop(stream, BUF_SIZE))

\* lines 754-768: the RunResult of a spawned child that wrote stream and
\* ended with status s
RunResultOf(stream, ok, s) ==
    [exit_code |-> ExitCodeOf(ok, s),
     captured_stderr |-> from_utf8_lossy(DrainAll(<<>>, stream))]

\* lines 721-779: what a run_bash call of the session can return
RunOutcomes ==
    { RunResultOf(st, ok, s) : st \in SessionStreams, ok \in BOOLEAN, s \in ExitStatuses }
        \cup { SpawnFailureResult(FailedToExecute \o e) : e \in SpawnErrors }

\* lines 1210-1215
PermissionDenialSubstrings ==
    {
      <<80, 101, 114, 109, 105, 115, 115, 105, 111, 110, 32, 100, 101, 110, 105, 101, 100>>,    \* "Permission denied"
      <<112, 101, 114, 109, 105, 115, 115, 105, 111, 110, 32, 100, 101, 110, 105, 101, 100>>,    \* "permission denied"
      <<69, 65, 67, 67, 69, 83>>,    \* "EACCES"
      <<79, 112, 101, 114, 97, 116, 105, 111, 110, 32, 110, 111, 116, 32, 112, 101, 114, 109, 105, 116, 116, 101, 100>>,    \* "Operation not permitted"
      <<109, 117, 115, 116, 32, 98, 101, 32, 114, 111, 111, 116>>,    \* "must be root"
      <<65, 99, 99, 101, 115, 115, 32, 100, 101, 110, 105, 101, 100>> }    \* "Access denied"

\* lines 1210-1215
IsPermissionError(stderr) ==
    \E p \in PermissionDenialSubstrings : Contains(stderr, p)

\* "sudo "
SUDO == <<115, 117, 100, 111, 32>>

\* FirstPrompt without the test for a command that is already elevated
FirstPrompt_NoSudoTest(cmd, stderr) ==
    IF IsPermissionError(stderr) THEN "perm_prompt" ELSE "fix_prompt"

\* line 1217: the prompt offer_error_help shows first
FirstPrompt(cmd, stderr) ==
    IF IsPermissionError(stderr) /\ ~StartsWith(cmd, SUDO)
    THEN "perm_prompt" ELSE "fix_prompt"

\* OffersHelp without the test for the claude CLI
OffersHelp_Unavailable(st, res) == res.exit_code # 0

\* OffersHelp without the test of the exit code
OffersHelp_Always(st, res) == st = "nl" \/ claude_available

\* lines 407, 430, 1100, 1117, 1130: the caller's test before offer_error_help
\* (st is the call site of run_bash: the ForceBash and ShellCommand arms of
\* the interactive loop, or handle_natural_language_interactive)
OffersHelp(st, res) == res.exit_code # 0 /\ (st = "nl" \/ claude_available)

\* SudoCommand that elevates an already elevated command text
SudoCommand_Twice(cmd) == SUDO \o SUDO \o cmd

\* line 1226: format!("sudo {}", cmd)
SudoCommand(cmd) == SUDO \o cmd

\* str::trim_start_matches
RECURSIVE TrimStartMatches(_, _)
TrimStartMatches(s, p) ==
    IF StartsWith(s, p) THEN TrimStartMatches(Drop(s, Len(p)), p) ELSE s

FENCE == <<96, 96, 96>>

\* lines 1311-1327
strip_code_fences(text) ==
    LET t == Trim(text) IN
    IF StartsWith(t, FENCE)
    THEN LET u == TrimStartMatches(
                      TrimStartMatches(
                          TrimStartMatches(
                              TrimStartMatches(t, <<96, 96, 96, 98, 97, 115, 104>>),
                              <<96, 96, 96, 115, 104>>),
                          <<96, 96, 96, 115, 104, 101, 108, 108>>),
                      FENCE)
             idx == RFind(u, FENCE)
         IN Trim(IF idx > 0 THEN Take(u, idx - 1) ELSE u)
    ELSE t

BLANK_LINE == <<10, 10>>

\* SplitReply that takes the first line break as the boundary
SplitReply_FirstNewline(text) ==
    LET i == Find(text, <<10>>) IN
    IF i > 0 THEN <<Take(text, i - 1), Drop(text, i)>> ELSE <<text>>

\* line 1283: text.splitn(2, "\n\n")
SplitReply(text) ==
    LET i == Find(text, BLANK_LINE) IN
    IF i > 0 THEN <<Take(text, i - 1), Drop(text, i + 1)>> ELSE <<text>>

\* read_single_line().trim().to_lowercase()
Choice(answer) == ToLower(Trim(answer))

\* The choice declines what prompt `at` offers: at the elevation prompt it
\* is not y / yes, at a fix offer not f / fix, at the prompt for the
\* suggested command not the empty answer, r, y or run.
Declines(at, choice) ==
    CASE at = "perm_prompt" -> choice \notin { <<121>>, <<121, 101, 115>> }
      [] at = "fix_prompt" -> choice \notin { <<102>>, <<102, 105, 120>> }
      [] at = "run_prompt" ->
             choice \notin { <<>>, <<114>>, <<121>>, <<114, 117, 110>> }

\* The entry of the answer log for the line read at prompt `at`.
Answered(at, answer) == [at |-> at, declined |-> Declines(at, Choice(answer))]

\* YesChoices with the empty answer accepted as well
YesChoices_DefaultYes == { <<>>, <<121>>, <<121, 101, 115>> }

\* line 1225: the answers that accept the elevation retry
YesChoices == { <<121>>, <<121, 101, 115>> }

\* FixChoices with the empty answer accepted as well
FixChoices_DefaultFix == { <<>>, <<102>>, <<102, 105, 120>> }

\* line 1251
FixChoices == { <<102>>, <<102, 105, 120>> }

\* line 1236
RetryFixChoices == { <<102>> }

\* line 1301
RunFixChoices == { <<>>, <<114>>, <<121>>, <<114, 117, 110>> }

\* line 1114
RunChoices == { <<>>, <<114>>, <<114, 117, 110>>, <<121>>, <<121, 101, 115>> }

\* line 1122
EditChoices == { <<101>>, <<101, 100, 105, 116>> }

\* An exit status that keeps the nearest value of 0..255
AsU8_Saturating(x) == IF x < 0 THEN 0 ELSE IF x > 255 THEN 255 ELSE x

\* An exit status that is 0 whatever the code
AsU8_Clean(x) == 0

\* `as u8` of an i32, and the low eight bits the system keeps of the argument
\* of std::process::exit
AsU8(x) == x % 256

\* The line is handled by execute_line (piped stdin, a script, claudeshrc, a
\* sourced file), not by the match of the interactive loop.
ViaExecuteLine == stack # <<>> \/ mode # "interactive" \/ rc

InFlow == pc \in {"perm_prompt", "fix_prompt", "retry_fix_prompt", "run_prompt", "flow_end"}
             \/ (pc = "run" /\ site \in {"sudo", "fix"})
             \/ (pc = "ai" /\ ai_site = "fixai")

Init ==
    /\ RunIdle
    /\ ClassifierIdle
    /\ TwinIdle
    /\ mode \in {"cflag", "script", "interactive", "piped"}
    /\ pc = "start"
    /\ claude_available \in BOOLEAN
    /\ yolo \in BOOLEAN
    /\ rc = FALSE
    /\ stack = <<>>
    /\ last_exit = 0
    /\ nlines = 0
    /\ line_kind = "none"
    /\ printed = "none"
    /\ line_code = NoneInt
    /\ executed = FALSE
    /\ nl_choice = None
    /\ cwd = StartDir
    /\ env = StartEnv
    /\ ended = "none"
    /\ run_cmd = <<>>
    /\ site = "none"
    /\ ai_site = "none"
    /\ error_context = NoContext
    /\ f_cmd = <<>>
    /\ f_result = NoResult
    /\ f_retry = NoResult
    /\ perm_choice = None
    /\ answers = <<>>
    /\ help = None
    /\ shown_expl = <<>>
    /\ shown_exit = -1
    /\ suggested_cmd = <<>>
    /\ gen_cmd = <<>>
    /\ events = <<>>
    /\ exit_status = -1

\* The line read last and what its match arm printed.
lineVars == <<line_kind, printed, line_code, executed, nl_choice>>

ctx == <<cwd, env>>

flowVars ==
    <<f_cmd, f_result, f_retry, perm_choice, answers, help, shown_expl, shown_exit,
      suggested_cmd, events, error_context>>

config == <<mode, claude_available, yolo>>

\* lines 93-142 of main, and the starts of run_script_file, run_interactive
\* and run_piped
Start ==
    /\ pc = "start"
    /\ \/ /\ mode = "cflag"
          /\ \E cmd \in CflagCommands : run_cmd' = cmd
          /\ site' = "cflag"
          /\ pc' = "run"
          /\ UNCHANGED <<rc, exit_status>>
       \/ /\ mode = "script"
          /\ \/ pc' = "loop" /\ UNCHANGED exit_status
             \/ pc' = "exited" /\ exit_status' = 127
          /\ UNCHANGED <<rc, run_cmd, site>>
       \/ /\ mode = "interactive"
          /\ \E b \in BOOLEAN : rc' = b
          /\ pc' = "loop"
          /\ UNCHANGED <<run_cmd, site, exit_status>>
       \/ /\ mode = "piped"
          /\ pc' = "loop"
          /\ UNCHANGED <<rc, run_cmd, site, exit_status>>
    /\ ended' = IF pc' = "exited" THEN "script_error" ELSE ended
    /\ UNCHANGED <<config, stack, last_exit, nlines, ai_site, gen_cmd, flowVars>>
    /\ UNCHANGED lineVars
    /\ UNCHANGED ctx
    /\ UNCHANGED <<runVars, clsVars, twinVars>>

\* Unavailable that lets the line pass in silence
Unavailable_Silent(via_execute_line) == [code |-> 0, message |-> "none"]

\* lines 306-308 and 443-448: what the NaturalLanguage arm does when the
\* claude CLI was not found: the message it prints and the line's exit code
Unavailable(via_execute_line) ==
    [code |-> 127,
     message |-> IF via_execute_line THEN "command not found"
                 ELSE "not a recognized command and claude CLI is unavailable"]

\* `last_exit = ...` of the loop that reads the current line
SetLast(v) ==
    IF stack # <<>>
    THEN stack' = [stack EXCEPT ![Len(stack)] = v] /\ UNCHANGED last_exit
    ELSE last_exit' = v /\ UNCHANGED stack

\* The line is done with exit code v: back to the loop that read it.
LineDone(v) ==
    /\ SetLast(v)
    /\ pc' = "loop"
    /\ ai_site' = "none"
    /\ gen_cmd' = <<>>
    /\ UNCHANGED <<run_cmd, site, exit_status, rc>>

\* run_bash(cmd, cwd) is called from call site st.
CallRunBash(cmd, st) ==
    /\ pc' = "run"
    /\ run_cmd' = cmd
    /\ site' = st

\* call_claude is called from call site st.
CallClaude(st) ==
    /\ pc' = "ai"
    /\ ai_site' = st

\* lines 936-993, up to the first line of the file
HandleSource ==
    \/ LineDone(1)
    \/ /\ stack' = Append(stack, 0)
       /\ pc' = "loop"
       /\ UNCHANGED <<last_exit, run_cmd, site, ai_site, gen_cmd, exit_status, rc>>

\* lines 877-888
strip_shell_quotes(s0) ==
    LET s == Trim(s0) IN
    IF Len(s) >= 2 /\ (\/ s[1] = 34 /\ s[Len(s)] = 34
                       \/ s[1] = 39 /\ s[Len(s)] = 39)
    THEN SubSeq(s, 2, Len(s) - 1)
    ELSE s

\* lines 863-874, with dirs::home_dir() = Some(HomeDir)
shellexpand_tilde(path) ==
    IF StartsWith(path, <<126, 47>>) THEN HomeDir \o <<47>> \o Drop(path, 2)
    ELSE IF path = <<126>> THEN HomeDir
    ELSE path

\* env::var(name).unwrap_or_default()
env_var_or_default(e, name) == IF name \in DOMAIN e THEN e[name] ELSE <<>>

\* env::set_var(key, value)
set_var(e, key, value) ==
    [k \in DOMAIN e \cup {key} |-> IF k = key THEN value ELSE e[k]]

\* env::remove_var(name)
remove_var(e, name) == [k \in DOMAIN e \ {name} |-> e[k]]

\* The least index of the set hits of indices of s; Len(s) + 1 when the set
\* is empty.
FirstOf(s, hits) ==
    IF hits = {} THEN Len(s) + 1
    ELSE CHOOSE j \in hits : \A h \in hits : j <= h

\* lines 899-906: where the scan of a braced name from index i on stops, at
\* the first closing brace
BraceEnd(s, i) == FirstOf(s, { j \in i..Len(s) : s[j] = 125 })

\* lines 908-915: where the scan of a bare name from index i on stops, at
\* the first byte that is no letter, digit or underscore
NameEnd(s, i) ==
    FirstOf(s, { j \in i..Len(s) : ~(IsAsciiAlnum(s[j]) \/ s[j] = 95) })

\* lines 891-930: $VAR and ${VAR} are replaced by the values of the
\* environment e
expand_env_vars(s, e) ==
    LET expand[i \in 1..(Len(s) + 1)] ==
            IF i > Len(s) THEN <<>>
            ELSE IF s[i] # 36 THEN <<s[i]>> \o expand[i + 1]
            ELSE LET braced == i < Len(s) /\ s[i + 1] = 123
                     from == IF braced THEN i + 2 ELSE i + 1
                     to == IF braced THEN BraceEnd(s, from) ELSE NameEnd(s, from)
                     var_name == SubSeq(s, from, to - 1)
                     next == IF braced /\ to <= Len(s) THEN to + 1 ELSE to
                 IN (IF var_name = <<>>
                     THEN <<36>> \o (IF braced THEN <<123>> ELSE <<>>)
                     ELSE env_var_or_default(e, var_name)) \o expand[next]
    IN expand[1]

\* PathBuf::join of a relative path
PathJoin(base, path) ==
    IF base # <<>> /\ base[Len(base)] = 47 THEN base \o path
    ELSE base \o <<47>> \o path

\* lines 783-833: handle_cd(dir, cwd) in directory c with environment e;
\* is_dir says whether the target can be resolved and is a directory.  The
\* targets here are in canonical form already.
handle_cd(dir0, c, e, is_dir) ==
    LET dir == strip_shell_quotes(dir0)
        same == [code |-> 1, cwd |-> c, env |-> e]
    IN
    IF dir = <<45>> /\ OLDPWD \notin DOMAIN e THEN same
    ELSE LET target ==
                 IF dir = <<>> THEN HomeDir
                 ELSE IF dir = <<45>> THEN e[OLDPWD]
                 ELSE LET expanded == shellexpand_tilde(dir) IN
                      IF expanded[1] = 47 THEN expanded ELSE PathJoin(c, expanded)
         IN IF is_dir
            THEN [code |-> 0, cwd |-> target,
                  env |-> set_var(set_var(e, OLDPWD, c), PWD, target)]
            ELSE same

\* lines 835-855: the environment after handle_export(assignment)
handle_export(assignment, e) ==
    LET i == Find(assignment, <<61>>) IN
    IF i = 0 THEN e
    ELSE LET key == Trim(Take(assignment, i - 1))
             value == Trim(Drop(assignment, i))
             is_single_quoted ==
                 Len(value) >= 2 /\ value[1] = 39 /\ value[Len(value)] = 39
             plain == shellexpand_tilde(strip_shell_quotes(value))
         IN set_var(e, key, IF is_single_quoted THEN plain
                            ELSE expand_env_vars(plain, e))

\* lines 256 and 384: the Cd arm
CdArm(dir) ==
    \E is_dir \in BOOLEAN :
        LET r == handle_cd(dir, cwd, env, is_dir) IN
        /\ LineDone(r.code)
        /\ cwd' = r.cwd
        /\ env' = r.env

\* lines 257-260 and 385-388: the Export arm
ExportArm(assignment) ==
    /\ LineDone(0)
    /\ env' = handle_export(assignment, env)
    /\ UNCHANGED cwd

\* lines 261-264 and 389-392: the Unset arm
UnsetArm(name) ==
    /\ LineDone(0)
    /\ env' = remove_var(env, name)
    /\ UNCHANGED cwd

\* A child whose assignment shows in the environment of claudesh
ChildLeaves_Adopts(cmd, c, e) ==
    LET i == Find(cmd, <<61>>) IN
    [cwd |-> c,
     env |-> IF i > 1 THEN set_var(e, Take(cmd, i - 1), Drop(cmd, i)) ELSE e]

\* lines 726-731 and 757: the child runs cmd in cwd with a copy of the
\* environment; what it does to its own directory and variables ends with
\* it, and RunResult brings back an exit code and captured stderr only
ChildLeaves(cmd, c, e) == [cwd |-> c, env |-> e]

\* lines 241-313
execute_line(input) ==
    LET k == classify_input(input, PATH_COMMANDS) IN
    CASE k.kind = "Exit" ->
           /\ pc' = "exited"
           /\ exit_status' = AsU8(IF k.code.some THEN k.code.v ELSE 0)
           /\ UNCHANGED <<stack, last_exit, run_cmd, site, ai_site, gen_cmd, rc, ctx>>
      [] k.kind \in {"Comment", "Help", "History"} -> LineDone(0) /\ UNCHANGED ctx
      [] k.kind = "Cd" -> CdArm(k.arg)
      [] k.kind = "Export" -> ExportArm(k.arg)
      [] k.kind = "Unset" -> UnsetArm(k.arg)
      [] k.kind = "Source" -> HandleSource /\ UNCHANGED ctx
      [] k.kind \in {"ForceBash", "ShellCommand"} ->
           /\ CallRunBash(k.arg, "exec")
           /\ UNCHANGED <<stack, last_exit, ai_site, gen_cmd, exit_status, rc, ctx>>
      [] k.kind \in {"Explain", "Ask"} ->
           /\ UNCHANGED ctx
           /\ IF claude_available
              THEN /\ CallClaude("explain")
                   /\ UNCHANGED <<stack, last_exit, run_cmd, site, gen_cmd, exit_status, rc>>
              ELSE LineDone(0)
      [] k.kind = "NaturalLanguage" ->
           /\ UNCHANGED ctx
           /\ IF claude_available
              THEN /\ CallClaude("gen_exec")
                   /\ UNCHANGED <<stack, last_exit, run_cmd, site, gen_cmd, exit_status, rc>>
              ELSE LineDone(Unavailable(ViaExecuteLine).code)

\* lines 373-451: the match of the interactive loop
InteractiveDispatch(input) ==
    LET k == classify_input(input, PATH_COMMANDS) IN
    CASE k.kind = "Exit" ->
           /\ last_exit' = (IF k.code.some THEN k.code.v ELSE last_exit)
           /\ pc' = "exited"
           /\ exit_status' = AsU8(last_exit')
           /\ UNCHANGED <<stack, run_cmd, site, ai_site, gen_cmd, rc, ctx>>
      [] k.kind = "Comment" ->
           UNCHANGED <<pc, stack, last_exit, run_cmd, site, ai_site, gen_cmd, exit_status,
                       rc, ctx>>
      [] k.kind \in {"Help", "History"} -> LineDone(0) /\ UNCHANGED ctx
      [] k.kind = "Cd" -> CdArm(k.arg)
      [] k.kind = "Export" -> ExportArm(k.arg)
      [] k.kind = "Unset" -> UnsetArm(k.arg)
      [] k.kind = "Source" -> HandleSource /\ UNCHANGED ctx
      [] k.kind \in {"ForceBash", "ShellCommand"} ->
           /\ CallRunBash(k.arg, "line")
           /\ UNCHANGED <<stack, last_exit, ai_site, gen_cmd, exit_status, rc, ctx>>
      [] k.kind \in {"Explain", "Ask"} ->
           /\ UNCHANGED ctx
           /\ IF claude_available
              THEN /\ CallClaude("explain")
                   /\ UNCHANGED <<stack, last_exit, run_cmd, site, gen_cmd, exit_status, rc>>
              ELSE LineDone(0)
      [] k.kind = "NaturalLanguage" ->
           /\ UNCHANGED ctx
           /\ IF claude_available
              THEN /\ CallClaude("gen")
                   /\ UNCHANGED <<stack, last_exit, run_cmd, site, gen_cmd, exit_status, rc>>
              ELSE LineDone(Unavailable(ViaExecuteLine).code)

\* One line is read and handled up to the point where the main thread next
\* waits: lines 196-207, 229-235, 344-357, 365-451, 971-988.
ReadLine ==
    /\ pc = "loop"
    /\ nlines < MaxLines
    /\ nlines' = nlines + 1
    /\ nl_choice' = None
    /\ \E raw \in Lines :
         LET input == Trim(raw)
             kind == classify_input(input, PATH_COMMANDS).kind
         IN
         IF input = <<>> \/ (ViaExecuteLine /\ StartsWith(input, <<35>>))
         THEN /\ line_kind' = "none"
              /\ printed' = "none"
              /\ line_code' = NoneInt
              /\ UNCHANGED executed
              /\ UNCHANGED <<pc, stack, last_exit, run_cmd, site, ai_site, gen_cmd,
                             exit_status, rc, ctx>>
         ELSE /\ line_kind' = kind
              /\ line_code' = classify_input(input, PATH_COMMANDS).code
              /\ executed' = TRUE
              /\ printed' = IF kind = "NaturalLanguage" /\ ~claude_available
                             THEN Unavailable(ViaExecuteLine).message
                             ELSE "none"
              /\ IF ViaExecuteLine THEN execute_line(input)
                 ELSE InteractiveDispatch(input)
    /\ ended' = IF pc' = "exited" THEN "exit" ELSE ended
    /\ UNCHANGED <<config, flowVars>>
    /\ UNCHANGED <<runVars, clsVars, twinVars>>

\* lines 452-455: the prompt is interrupted; an empty line is printed and the
\* loop goes on
Interrupted ==
    /\ pc = "loop"
    /\ mode = "interactive"
    /\ ~rc
    /\ stack = <<>>
    /\ nlines < MaxLines
    /\ nlines' = nlines + 1
    /\ line_kind' = "none"
    /\ printed' = "newline"
    /\ line_code' = NoneInt
    /\ nl_choice' = None
    /\ UNCHANGED <<pc, stack, last_exit, run_cmd, site, ai_site, gen_cmd,
                   exit_status, rc, ended, executed>>
    /\ UNCHANGED <<config, flowVars>>
    /\ UNCHANGED ctx
    /\ UNCHANGED <<runVars, clsVars, twinVars>>

\* The source of lines is at its end: lines 209, 237, 359, 457-472, 992.
EndOfInput ==
    /\ pc = "loop"
    /\ IF stack # <<>>
       THEN LET v == stack[Len(stack)]
                rest == SubSeq(stack, 1, Len(stack) - 1)
            IN /\ IF rest # <<>>
                  THEN stack' = [rest EXCEPT ![Len(rest)] = v] /\ UNCHANGED last_exit
                  ELSE stack' = rest /\ last_exit' = v
               /\ UNCHANGED <<pc, rc, exit_status>>
       ELSE IF mode = "interactive" /\ rc
       THEN /\ rc' = FALSE
            /\ UNCHANGED <<pc, stack, last_exit, exit_status>>
       ELSE /\ pc' = "exited"
            /\ exit_status' = AsU8(last_exit)
            /\ UNCHANGED <<stack, last_exit, rc>>
    /\ ended' = IF pc' = "exited" THEN "eof" ELSE ended
    /\ UNCHANGED <<config, nlines, run_cmd, site, ai_site, gen_cmd, flowVars>>
    /\ UNCHANGED lineVars
    /\ UNCHANGED ctx
    /\ UNCHANGED <<runVars, clsVars, twinVars>>

\* AfterFixRun that offers help again for a suggested command that failed
AfterFixRun_Reoffer(res) ==
    IF res.exit_code # 0 THEN "fix_prompt" ELSE "flow_end"

\* line 1303: the RunResult of the suggested command is dropped, and
\* do_ai_error_analysis and offer_error_help return
AfterFixRun(res) == "flow_end"

\* lines 1206-1222 and 1244-1248: offer_error_help is entered and shows its
\* first prompt
EnterFlow(cmd, res) ==
    /\ f_cmd' = cmd
    /\ f_result' = res
    /\ f_retry' = NoResult
    /\ perm_choice' = None
    /\ answers' = <<>>
    /\ help' = None
    /\ shown_expl' = <<>>
    /\ pc' = FirstPrompt(cmd, res.captured_stderr)
    /\ events' = <<pc'>>
    /\ shown_exit' = (IF pc' = "fix_prompt" THEN res.exit_code ELSE -1)
    /\ UNCHANGED <<suggested_cmd, error_context>>

\* run_bash returns to its caller: lines 104-105, 275-276, 295-296, 406-410,
\* 429-433, 1099-1103, 1116-1120, 1129-1133, 1228-1240, 1303.
RunBash ==
    /\ pc = "run"
    /\ \E res \in RunOutcomes :
         CASE site = "cflag" ->
                /\ pc' = "exited"
                /\ exit_status' = AsU8(res.exit_code)
                /\ UNCHANGED <<stack, last_exit, flowVars>>
           [] site = "exec" ->
                /\ SetLast(res.exit_code)
                /\ pc' = "loop"
                /\ UNCHANGED <<exit_status, flowVars>>
           [] site \in {"line", "nl"} ->
                IF OffersHelp(site, res)
                THEN /\ EnterFlow(run_cmd, res)
                     /\ UNCHANGED <<stack, last_exit, exit_status>>
                ELSE /\ last_exit' = res.exit_code
                     /\ pc' = "loop"
                     /\ UNCHANGED <<stack, exit_status, flowVars>>
           [] site = "sudo" ->
                /\ f_retry' = res
                /\ IF res.exit_code # 0
                   THEN /\ pc' = "retry_fix_prompt"
                        /\ events' = Append(events, "fix_prompt")
                        /\ shown_exit' = res.exit_code
                   ELSE /\ pc' = "flow_end"
                        /\ UNCHANGED <<events, shown_exit>>
                /\ UNCHANGED <<stack, last_exit, exit_status, f_cmd, f_result,
                               perm_choice, answers, help, shown_expl, suggested_cmd,
                               error_context>>
           [] site = "fix" ->
                /\ pc' = AfterFixRun(res)
                /\ events' = Append(events,
                                    IF res.exit_code = 0 THEN "fix_ok" ELSE "fix_failed")
                /\ UNCHANGED <<stack, last_exit, exit_status, f_cmd, f_result,
                               f_retry, perm_choice, answers, help, shown_expl,
                               shown_exit, suggested_cmd, error_context>>
    /\ ended' = IF pc' = "exited" THEN "cflag" ELSE ended
    /\ nl_choice' = None
    /\ LET after == ChildLeaves(run_cmd, cwd, env) IN
         cwd' = after.cwd /\ env' = after.env
    /\ run_cmd' = <<>>
    /\ site' = "none"
    /\ UNCHANGED <<config, rc, nlines, ai_site, gen_cmd>>
    /\ UNCHANGED <<line_kind, printed, line_code, executed>>
    /\ UNCHANGED <<runVars, clsVars, twinVars>>

\* The recovery flow is over: offer_error_help returns.
EndFlow ==
    /\ pc' = "flow_end"
    /\ ai_site' = "none"
    /\ UNCHANGED <<run_cmd, site>>

\* lines 1224-1242: the answer to the elevation prompt
AnswerPerm ==
    /\ pc = "perm_prompt"
    /\ \E answer \in Answers :
         /\ perm_choice' = Some(Choice(answer))
         /\ answers' = Append(answers, Answered("perm_prompt", answer))
         /\ IF Choice(answer) \in YesChoices
            THEN /\ CallRunBash(SudoCommand(f_cmd), "sudo")
                 /\ events' = Append(events, "retry")
                 /\ UNCHANGED <<shown_exit, ai_site>>
            ELSE /\ pc' = "fix_prompt"
                 /\ events' = Append(events, "fix_prompt")
                 /\ shown_exit' = f_result.exit_code
                 /\ UNCHANGED <<run_cmd, site, ai_site>>
    /\ UNCHANGED <<config, rc, stack, last_exit, nlines, gen_cmd, exit_status,
                   f_cmd, f_result, f_retry, suggested_cmd, error_context>>
    /\ UNCHANGED <<help, shown_expl>>
    /\ UNCHANGED lineVars
    /\ UNCHANGED ended
    /\ UNCHANGED ctx
    /\ UNCHANGED <<runVars, clsVars, twinVars>>

\* DoAiErrorAnalysis that names the elevated command text in its context
DoAiErrorAnalysis_Elevated(cmd, stderr, exit_code) ==
    /\ error_context' = [cmd |-> SudoCommand(cmd), exit_code |-> exit_code,
                         stderr |-> stderr]
    /\ CallClaude("fixai")
    /\ events' = Append(events, "ai")
    /\ UNCHANGED <<run_cmd, site>>

\* lines 1256-1276: do_ai_error_analysis up to its call of call_claude
DoAiErrorAnalysis(cmd, stderr, exit_code) ==
    /\ error_context' = [cmd |-> cmd, exit_code |-> exit_code, stderr |-> stderr]
    /\ CallClaude("fixai")
    /\ events' = Append(events, "ai")
    /\ UNCHANGED <<run_cmd, site>>

\* lines 1250-1253: the answer to the fix offer for the original failure
AnswerFix ==
    /\ pc = "fix_prompt"
    /\ \E answer \in Answers :
         /\ answers' = Append(answers, Answered("fix_prompt", answer))
         /\ IF Choice(answer) \in FixChoices
            THEN DoAiErrorAnalysis(f_cmd, f_result.captured_stderr, f_result.exit_code)
            ELSE EndFlow /\ UNCHANGED <<events, error_context>>
    /\ UNCHANGED <<config, rc, stack, last_exit, nlines, gen_cmd, exit_status,
                   f_cmd, f_result, f_retry, perm_choice, shown_exit, suggested_cmd>>
    /\ UNCHANGED <<help, shown_expl>>
    /\ UNCHANGED lineVars
    /\ UNCHANGED ended
    /\ UNCHANGED ctx
    /\ UNCHANGED <<runVars, clsVars, twinVars>>

\* lines 1235-1240: the answer to the fix offer after a failed retry
AnswerRetryFix ==
    /\ pc = "retry_fix_prompt"
    /\ \E answer \in Answers :
         /\ answers' = Append(answers, Answered("fix_prompt", answer))
         /\ IF Choice(answer) \in RetryFixChoices
            THEN DoAiErrorAnalysis(f_cmd, f_retry.captured_stderr, f_retry.exit_code)
            ELSE EndFlow /\ UNCHANGED <<events, error_context>>
    /\ UNCHANGED <<config, rc, stack, last_exit, nlines, gen_cmd, exit_status,
                   f_cmd, f_result, f_retry, perm_choice, shown_exit, suggested_cmd>>
    /\ UNCHANGED <<help, shown_expl>>
    /\ UNCHANGED lineVars
    /\ UNCHANGED ended
    /\ UNCHANGED ctx
    /\ UNCHANGED <<runVars, clsVars, twinVars>>

\* call_claude returns to its caller: lines 278-292, 302-305, 412-426,
\* 1088-1110 and 1144-1150, 1162-1173, 1184-1195, 1280-1298 and 1305-1308.
AiReply ==
    /\ pc = "ai"
    /\ \E out \in ClaudeOutputs :
         LET reply == call_claude(out) IN
         CASE ai_site \in {"explain", "gen_exec"} ->
                /\ LineDone(0)
                /\ UNCHANGED flowVars
           [] ai_site = "gen" ->
                IF reply.some
                THEN LET cmd == strip_code_fences(reply.v) IN
                     IF yolo
                     THEN /\ CallRunBash(cmd, "nl")
                          /\ ai_site' = "none"
                          /\ UNCHANGED <<stack, last_exit, gen_cmd,
                                         exit_status, rc, flowVars>>
                     ELSE /\ pc' = "nl_prompt"
                          /\ gen_cmd' = cmd
                          /\ ai_site' = "none"
                          /\ UNCHANGED <<stack, last_exit, run_cmd, site,
                                         exit_status, rc, flowVars>>
                ELSE LineDone(1) /\ UNCHANGED flowVars
           [] ai_site = "fixai" ->
                /\ help' = reply
                /\ IF reply.some
                   THEN LET text == strip_code_fences(reply.v)
                            parts == SplitReply(text)
                        IN IF Len(parts) = 2
                           THEN /\ shown_expl' = Trim(parts[1])
                                /\ suggested_cmd' = Trim(parts[2])
                                /\ pc' = "run_prompt"
                                /\ events' = Append(events, "run_prompt")
                                /\ ai_site' = "none"
                                /\ UNCHANGED <<run_cmd, site>>
                           ELSE /\ shown_expl' = text
                                /\ EndFlow
                                /\ UNCHANGED <<suggested_cmd, events>>
                   ELSE /\ EndFlow
                        /\ events' = IF ClaudeDiagnostic(out) = "none" THEN events
                                      ELSE Append(events, ClaudeDiagnostic(out))
                        /\ UNCHANGED <<suggested_cmd, shown_expl>>
                /\ UNCHANGED <<stack, last_exit, gen_cmd, exit_status, rc, f_cmd,
                               f_result, f_retry, perm_choice, answers, shown_exit,
                               error_context>>
    /\ UNCHANGED <<config, nlines>>
    /\ UNCHANGED lineVars
    /\ UNCHANGED ended
    /\ UNCHANGED ctx
    /\ UNCHANGED <<runVars, clsVars, twinVars>>

\* lines 1300-1304: the answer to the prompt for the suggested command
AnswerRunFix ==
    /\ pc = "run_prompt"
    /\ \E answer \in Answers :
         /\ answers' = Append(answers, Answered("run_prompt", answer))
         /\ IF Choice(answer) \in RunFixChoices
            THEN /\ CallRunBash(suggested_cmd, "fix")
                 /\ events' = Append(events, "fix_run")
                 /\ UNCHANGED ai_site
            ELSE EndFlow /\ UNCHANGED events
    /\ UNCHANGED <<config, rc, stack, last_exit, nlines, gen_cmd, exit_status,
                   f_cmd, f_result, f_retry, perm_choice, shown_exit, suggested_cmd,
                   error_context>>
    /\ UNCHANGED <<help, shown_expl>>
    /\ UNCHANGED lineVars
    /\ UNCHANGED ended
    /\ UNCHANGED ctx
    /\ UNCHANGED <<runVars, clsVars, twinVars>>

\* offer_error_help has returned: lines 410, 433, 1103, 1120, 1133 give the
\* exit code of the failed run to the loop
FlowReturn ==
    /\ pc = "flow_end"
    /\ last_exit' = f_result.exit_code
    /\ pc' = "loop"
    /\ f_cmd' = <<>>
    /\ f_result' = NoResult
    /\ f_retry' = NoResult
    /\ perm_choice' = None
    /\ answers' = <<>>
    /\ help' = None
    /\ shown_expl' = <<>>
    /\ shown_exit' = -1
    /\ suggested_cmd' = <<>>
    /\ events' = <<>>
    /\ error_context' = NoContext
    /\ UNCHANGED <<config, rc, stack, nlines, run_cmd, site, ai_site, gen_cmd, exit_status>>
    /\ UNCHANGED lineVars
    /\ UNCHANGED ended
    /\ UNCHANGED ctx
    /\ UNCHANGED <<runVars, clsVars, twinVars>>

\* lines 1112-1142: the answer to run / edit / skip
AnswerGenerated ==
    /\ pc = "nl_prompt"
    /\ \E answer \in Answers :
         /\ IF Choice(answer) \in RunChoices
            THEN /\ CallRunBash(gen_cmd, "nl")
                 /\ nl_choice' = Some(Choice(answer))
                 /\ gen_cmd' = <<>>
                 /\ UNCHANGED <<stack, last_exit, ai_site, exit_status, rc>>
            ELSE IF Choice(answer) \in EditChoices
            THEN /\ pc' = "nl_edit"
                 /\ gen_cmd' = <<>>
                 /\ UNCHANGED <<stack, last_exit, run_cmd, site, ai_site, exit_status, rc>>
                 /\ UNCHANGED nl_choice
            ELSE LineDone(0) /\ UNCHANGED nl_choice
    /\ UNCHANGED <<config, nlines, flowVars>>
    /\ UNCHANGED <<line_kind, printed, line_code, executed>>
    /\ UNCHANGED ended
    /\ UNCHANGED ctx
    /\ UNCHANGED <<runVars, clsVars, twinVars>>

\* lines 1125-1136: the edited command
AnswerEdited ==
    /\ pc = "nl_edit"
    /\ \E raw \in EditedLines :
         LET edited == Trim(raw) IN
         IF edited # <<>>
         THEN /\ CallRunBash(edited, "nl")
              /\ UNCHANGED <<stack, last_exit, ai_site, exit_status, rc>>
         ELSE LineDone(0)
    /\ UNCHANGED <<config, nlines, gen_cmd, flowVars>>
    /\ UNCHANGED lineVars
    /\ UNCHANGED ended
    /\ UNCHANGED ctx
    /\ UNCHANGED <<runVars, clsVars, twinVars>>

Next ==
    \/ Start
    \/ ReadLine
    \/ Interrupted
    \/ EndOfInput
    \/ RunBash
    \/ AiReply
    \/ AnswerPerm
    \/ AnswerFix
    \/ AnswerRetryFix
    \/ AnswerRunFix
    \/ FlowReturn
    \/ AnswerGenerated
    \/ AnswerEdited

Spec == Init /\ [][Next]_vars

\* ------------------------------------------------------ the classifier alone

\* Bound on the number of pieces a generated line is made of.
MaxTokens == 3

\* The pieces: "#", "!", "?", " ", "=", ".", "/", "exit", "cd", "x".
Tokens ==
    { <<35>>, <<33>>, <<63>>, <<32>>, <<61>>, <<46>>, <<47>>,
      <<101, 120, 105, 116>>, <<99, 100>>, <<120>> }

\* The lines made of at most k pieces.
RECURSIVE TokenLines(_)
TokenLines(k) ==
    IF k <= 0 THEN { <<>> }
    ELSE LET shorter == TokenLines(k - 1) IN
         shorter \cup { l \o t : l \in shorter, t \in Tokens }

\* Lines that start with each of the shell syntax characters.
SyntaxLines ==
    { <<c>> \o l : c \in ShellSyntaxChars, l \in TokenLines(MaxTokens - 1) }

\* Names made of "A", "z", "0" and "_".
NameBytes == {65, 122, 48, 95}
Names ==
    { <<a>> : a \in NameBytes } \cup { <<a, b>> : a \in NameBytes, b \in NameBytes }

\* Lines that start with a name and "=".
AssignmentLines ==
    { n \o <<61>> \o l : n \in Names, l \in TokenLines(MaxTokens - 2) }

\* Lines that the pieces do not give.
SampleLines ==
    {
      <<113, 117, 105, 116>>,    \* "quit"
      <<108, 111, 103, 111, 117, 116>>,    \* "logout"
      <<101, 120, 105, 116, 32, 45, 51>>,    \* "exit -3"
      <<101, 120, 105, 116, 32, 43, 51>>,    \* "exit +3"
      <<101, 120, 105, 116, 32, 50, 49, 52, 55, 52, 56, 51, 54, 52, 56>>,    \* "exit 2147483648"
      <<101, 120, 105, 116, 32, 120>>,    \* "exit x"
      <<101, 120, 105, 116, 32, 32, 55>>,    \* "exit  7"
      <<101, 120, 105, 116, 120>>,    \* "exitx"
      <<108, 115, 32, 45, 108>>,    \* "ls -l"
      <<108, 115, 124, 120>>,    \* "ls|x"
      <<108, 115, 59, 120>>,    \* "ls;x"
      <<108, 115, 120>>,    \* "lsx"
      <<115, 117, 100, 111, 120>>,    \* "sudox"
      <<101, 99, 104, 111, 32, 104, 105>>,    \* "echo hi"
      <<117, 110, 115, 101, 116, 32, 65>>,    \* "unset A"
      <<115, 111, 117, 114, 99, 101, 102>>,    \* "sourcef"
      <<46, 32, 102>>,    \* ". f"
      <<70, 79, 79, 61, 98, 97, 114, 32, 98, 97, 122>>,    \* "FOO=bar baz"
      <<65, 95, 49, 61>>,    \* "A_1="
      <<97, 32, 98, 61, 99>>,    \* "a b=c"
      <<97, 45, 98, 61, 99>>,    \* "a-b=c"
      <<126>>,    \* "~"
      <<36, 120>>,    \* "$x"
      <<40, 120, 41>>,    \* "(x)"
      <<123, 120>>,    \* "{x"
      <<91, 120>>,    \* "[x"
      <<60, 120>>,    \* "<x"
      <<62, 120>>,    \* ">x"
      <<98, 105, 110, 47, 120, 32, 121>>,    \* "bin/x y"
      <<63, 63, 32, 32, 120>>,    \* "??  x"
      <<63, 63, 32, 120>>,    \* "?? x"
      <<33, 32, 99, 100, 32, 120>>,    \* "! cd x"
      <<33, 101, 120, 105, 116>>,    \* "!exit"
      <<33, 32, 101, 120, 112, 111, 114, 116, 32, 65, 61, 98>>,    \* "! export A=b"
      <<33, 32, 63, 32, 120>>,    \* "! ? x"
      <<33, 102, 105, 120, 32, 105, 116>>,    \* "!fix it"
      <<100, 101, 112, 108, 111, 121, 32, 116, 104, 101, 32, 97, 112, 112, 32, 116, 111, 32, 115, 116, 97, 103, 105, 110, 103>>,    \* "deploy the app to staging"
      <<108, 115, 32, 116, 104, 101, 32, 97, 112, 112>>,    \* "ls the app"
      <<108, 115, 38, 120>>,    \* "ls&x"
      <<120, 124, 108, 115>>,    \* "x|ls"
      <<116, 105, 109, 101, 32, 108, 115>>,    \* "time ls"
      <<110, 105, 99, 101>>,    \* "nice"
      <<119, 97, 116, 99, 104, 32, 120>>,    \* "watch x"
      <<63, 32, 120>>,    \* "? x"
      <<33, 108, 115>>,    \* "!ls"
      <<99, 100, 32, 32, 47, 116, 109, 112>>,    \* "cd  /tmp"
      <<104, 195, 169, 61, 49>>    \* "hé=1"
    }

\* What the read loops hand to classify_input (lines 367-373): the line,
\* trimmed, when that is not empty.
Inputs ==
    { Trim(l) : l \in TokenLines(MaxTokens) \cup SyntaxLines \cup AssignmentLines
                      \cup SampleLines \cup Lines } \ { <<>> }

InitClassify ==
    /\ RunIdle
    /\ SessionIdle
    /\ TwinIdle
    /\ cpc = "first"
    /\ c_input \in Inputs
    /\ c_env \in PathValues
    /\ c_cwd = "/"
    /\ c_paths = build_path_command_set(c_env)
    /\ c_out = NoOutput
    /\ c_prev = NoOutput

\* lines 373 and 249: classify_input(input, &path_commands) is called and
\* returns
Classify ==
    /\ cpc \in {"first", "mid"}
    /\ cpc' = IF cpc = "first" THEN "mid" ELSE "done"
    /\ c_prev' = c_out
    /\ c_out' = classify_input(c_input, c_paths)
    /\ UNCHANGED <<c_input, c_env, c_cwd, c_paths>>
    /\ UNCHANGED <<runVars, sessVars, twinVars>>

\* lines 783-833: handle_cd changes the current directory between the calls
ChangeDir ==
    /\ cpc = "mid"
    /\ c_cwd = "/"
    /\ c_cwd' = "/tmp"
    /\ UNCHANGED <<cpc, c_input, c_env, c_paths, c_out, c_prev>>
    /\ UNCHANGED <<runVars, sessVars, twinVars>>

\* lines 835-855: handle_export sets PATH between the calls; path_commands is
\* not built again
ExportPath ==
    /\ cpc = "mid"
    /\ c_paths = build_path_command_set(c_env)
    /\ \E p \in PathValues \ {c_env} : c_env' = p
    /\ UNCHANGED <<cpc, c_input, c_cwd, c_paths, c_out, c_prev>>
    /\ UNCHANGED <<runVars, sessVars, twinVars>>

NextClassify ==
    \/ Classify
    \/ ChangeDir
    \/ ExportPath

SpecClassify == InitClassify /\ [][NextClassify]_vars

\* ------------------------------------------------- two flows side by side

\* The commands of the two runs: "ls" and "sudo ls".
TwinCommands == { <<108, 115>>, SUDO \o <<108, 115>> }

\* What the children wrote: "x", "EACCES", four times e-acute and then
\* "EACCES", four times e-acute and then "x", and three times e-acute and
\* then e-circumflex.
TwinStreams ==
    { <<120>>,
      <<69, 65, 67, 67, 69, 83>>,
      <<195, 169, 195, 169, 195, 169, 195, 169, 69, 65, 67, 67, 69, 83>>,
      <<195, 169, 195, 169, 195, 169, 195, 169, 120>>,
      <<195, 169, 195, 169, 195, 169, 195, 170>> }

\* lines 1276-1309: the prompt do_ai_error_analysis shows after the reply of
\* call_claude, if any
AfterDiagnosis(out) ==
    LET reply == call_claude(out) IN
    IF reply.some /\ Len(SplitReply(strip_code_fences(reply.v))) = 2
    THEN "run_prompt" ELSE "end"

\* lines 1224-1253 and 1300-1304: where a flow at prompt p goes with the
\* answer, given the result of an elevation retry and the outcome of the
\* claude process
FlowNext(p, answer, retry, out) ==
    CASE p = "perm_prompt" ->
             IF Choice(answer) \in YesChoices
             THEN (IF retry.exit_code # 0 THEN "retry_fix_prompt" ELSE "end")
             ELSE "fix_prompt"
      [] p = "fix_prompt" ->
             IF Choice(answer) \in FixChoices THEN AfterDiagnosis(out) ELSE "end"
      [] p = "retry_fix_prompt" ->
             IF Choice(answer) \in RetryFixChoices THEN AfterDiagnosis(out) ELSE "end"
      [] OTHER -> "end"

\* Two runs of one command have failed with the same exit code: lines 406-407
\* and 429-430.
InitTwin ==
    /\ RunIdle
    /\ SessionIdle
    /\ ClassifierIdle
    /\ tw_cmd \in TwinCommands
    /\ \E a \in TwinStreams, b \in TwinStreams, ok \in BOOLEAN, st \in ExitStatuses :
         /\ ExitCodeOf(ok, st) # 0
         /\ tw_streams = <<a, b>>
         /\ tw_res = <<RunResultOf(a, ok, st), RunResultOf(b, ok, st)>>
    /\ tw_pc = <<"entry", "entry">>
    /\ tw_shown = << <<>>, <<>> >>

\* lines 1206-1222 and 1244-1248: offer_error_help is entered for both runs
\* and shows its first prompt
TwinEnter ==
    /\ tw_pc = <<"entry", "entry">>
    /\ tw_pc' = [i \in 1..2 |-> FirstPrompt(tw_cmd, tw_res[i].captured_stderr)]
    /\ tw_shown' = [i \in 1..2 |-> <<tw_pc'[i]>>]
    /\ UNCHANGED <<tw_cmd, tw_streams, tw_res>>
    /\ UNCHANGED <<runVars, sessVars, clsVars>>

\* lines 1224-1253 and 1276-1304: the user gives the same answer in both
\* flows; an elevation retry and the claude process end the same way in both
TwinAnswer ==
    /\ tw_pc[1] \notin {"entry", "end"} \/ tw_pc[2] \notin {"entry", "end"}
    /\ \E answer \in Answers, retry \in RunOutcomes, out \in ClaudeOutputs :
         /\ tw_pc' = [i \in 1..2 |-> FlowNext(tw_pc[i], answer, retry, out)]
         /\ tw_shown' = [i \in 1..2 |->
                            IF tw_pc'[i] = "end" THEN tw_shown[i]
                            ELSE Append(tw_shown[i], tw_pc'[i])]
    /\ UNCHANGED <<tw_cmd, tw_streams, tw_res>>
    /\ UNCHANGED <<runVars, sessVars, clsVars>>

NextTwin ==
    \/ TwinEnter
    \/ TwinAnswer

SpecTwin == InitTwin /\ [][NextTwin]_vars

\* A step of the recovery flow and of what it waits for: a prompt is answered,
\* run_bash or call_claude returns, offer_error_help returns.
FlowStep ==
    \/ RunBash
    \/ AiReply
    \/ AnswerPerm
    \/ AnswerFix
    \/ AnswerRetryFix
    \/ AnswerRunFix
    \/ FlowReturn

\* The session in which every prompt is answered in the end and every
\* run_bash and call_claude call returns in the end.
LiveSpec == Spec /\ WF_vars(FlowStep)

\* ------------------------------------------------------------------ claims

\* The call has returned from a successful spawn.
Returned == rpc = "ret" /\ started = 1

\* The RunResult of a run is decided by the bytes written to the pipe: the
\* capture is the lossy decoding of the first STDERR_CAPTURE_LIMIT bytes of
\* what the drain thread read, which is the whole stream unless a read failed.
RunResultIsSummary ==
    Returned =>
        /\ \E n \in 0..Len(sent) :
             /\ term = Take(sent, n)
             /\ result.captured_stderr =
                    from_utf8_lossy(Take(term, STDERR_CAPTURE_LIMIT))
        /\ ~rdErr => term = sent

\* C1: the capture buffer of the drain thread never exceeds the limit, and
\* the captured_stderr of the RunResult of a spawned child is at most
\* STDERR_CAPTURE_LIMIT bytes long, whatever bytes the child wrote.  (Stated
\* for the runs in which no read failed.  The message of a failed spawn is
\* left out: it is short against the real limit, and only the scaled limit
\* of this model is shorter than it.)
C1_CaptureWithinLimit ==
    /\ Len(captured) <= STDERR_CAPTURE_LIMIT
    /\ (Returned /\ ~rdErr) =>
           Len(result.captured_stderr) <= STDERR_CAPTURE_LIMIT

\* C2: when the child side wrote more than STDERR_CAPTURE_LIMIT bytes (and no
\* read of the pipe failed), run_bash wrote exactly those bytes, in order, to
\* the real error stream, and the returned capture is exactly
\* STDERR_CAPTURE_LIMIT bytes long.
C2_FullForwardExactCapture ==
    (Returned /\ ~rdErr /\ Len(sent) > STDERR_CAPTURE_LIMIT) =>
        /\ term = sent
        /\ Len(result.captured_stderr) = STDERR_CAPTURE_LIMIT

\* C3: run_bash holds a RunResult only after the child was waited for and the
\* drain thread joined: at the return no drain thread is alive, and the main
\* thread has no capture while the drain thread may still write its buffer;
\* the capture it returns is the decoding of the final buffer.
C3_JoinedBeforeReturn ==
    /\ rpc = "ret" => alive = 0
    /\ Returned => shell = "reaped" /\ dpc = "done"
                   /\ result.captured_stderr = from_utf8_lossy(captured)
    /\ dpc \in {"read", "forward", "capture"} => result = NoResult

C3_Witness ==
    Returned /\ Len(sent) > BUF_SIZE /\ captured # <<>>

\* C4: once the shell has exited, run_bash returns, also when a background
\* process still holds the write end of the pipe.
C4_ReturnsAfterShellExit == (shell = "exited") ~> (rpc = "ret")

\* C5: a failed spawn gives RunResult{127, diagnostic}, prints the diagnostic
\* once, starts no drain thread and no child, and the call returns.
C5_SpawnFailure ==
    (rpc = "ret" /\ started = 0) =>
        /\ \E e \in SpawnErrors :
             LET msg == FailedToExecute \o e IN
             /\ result = [exit_code |-> 127, captured_stderr |-> msg]
             /\ CountOcc(term, msg) = 1
             /\ term = COLOR_RED \o msg \o COLOR_RESET \o NEWLINE
        /\ dpc = "none" /\ shell = "none" /\ alive = 0

C5_Witness ==
    rpc = "ret" /\ started = 0 /\ result.exit_code = 127 /\ term # <<>>

\* C6: the exit_code of a returned RunResult is in 0..255: the child's own
\* status when it exited normally and the wait succeeded, the sentinel 1 when
\* it was killed by a signal or the wait failed.
C6_ExitCodeRange ==
    rpc = "ret" =>
        /\ result.exit_code \in 0..255
        /\ (started = 1 /\ waitOk /\ status.kind = "code")
               => result.exit_code = status.v
        /\ (started = 1 /\ (~waitOk \/ status.kind = "signal"))
               => result.exit_code = 1

C6_Witness ==
    Returned /\ waitOk /\ status.kind = "signal" /\ result.exit_code = 1

\* ------------------------------------------------- claims on the recovery

\* "y" and "yes"
AnsweredYes ==
    perm_choice.some /\ perm_choice.v \in { <<121>>, <<121, 101, 115>> }

\* The elevation prompt was answered, and not with y or yes.
AnsweredNo ==
    perm_choice.some /\ perm_choice.v \notin { <<121>>, <<121, 101, 115>> }

\* The number of entries e in the log of the flow.
Times(e) == Cardinality({ i \in 1..Len(events) : events[i] = e })

\* C7: offer_error_help is entered only with the result of a run_bash call
\* whose exit_code is not 0, and only from the interactive loop: never in
\* the -c, script or piped mode, and never for a line of claudeshrc or of a
\* sourced file; outside the interactive mode no prompt of the flow is shown.
C7_RecoveryOnlyInteractiveFailure ==
    /\ InFlow =>
         /\ f_result \in RunOutcomes
         /\ f_result.exit_code # 0
         /\ mode = "interactive"
         /\ ~rc
         /\ stack = <<>>
         /\ events # <<>>
    /\ (mode # "interactive" \/ ViaExecuteLine) => (~InFlow /\ events = <<>>)

C7_Witness ==
    /\ pc = "fix_prompt"
    /\ mode = "interactive"
    /\ f_result.exit_code = 255
    /\ nlines = 2

\* C8: in a flow whose captured stderr holds a permission-denial substring
\* and whose command does not begin with "sudo ", the first prompt is the
\* elevation prompt; in every other flow the first prompt is the fix offer
\* and no elevation prompt is shown at all.
C8_FirstPrompt ==
    InFlow =>
        IF IsPermissionError(f_result.captured_stderr) /\ ~StartsWith(f_cmd, SUDO)
        THEN events[1] = "perm_prompt"
        ELSE /\ events[1] = "fix_prompt"
             /\ Times("perm_prompt") = 0
             /\ ~perm_choice.some

C8_Witness ==
    /\ pc = "flow_end"
    /\ IsPermissionError(f_result.captured_stderr)
    /\ StartsWith(f_cmd, SUDO)
    /\ Len(events) >= 2

\* C9: after a yes to the elevation prompt the command is run once more, as
\* "sudo " followed by the original command, and exactly once; a retry that
\* exits 0 ends the flow with no further prompt; a retry that fails is
\* followed by exactly one fix offer; there is never a second elevation
\* prompt or a second retry in the flow.
C9_ElevatedRetryOnce ==
    /\ Times("perm_prompt") <= 1
    /\ Times("retry") <= 1
    /\ (InFlow /\ AnsweredYes) =>
         /\ SubSeq(events, 1, 2) = <<"perm_prompt", "retry">>
         /\ (pc = "run" /\ site = "sudo") =>
                (run_cmd = SUDO \o f_cmd /\ f_retry = NoResult)
         /\ ~(pc = "run" /\ site = "sudo") => f_retry \in RunOutcomes
         /\ (f_retry # NoResult /\ f_retry.exit_code = 0) =>
                (pc = "flow_end" /\ events = <<"perm_prompt", "retry">>)
         /\ (f_retry # NoResult /\ f_retry.exit_code # 0) =>
                /\ SubSeq(events, 1, 3) = <<"perm_prompt", "retry", "fix_prompt">>
                /\ Times("fix_prompt") = 1
                /\ pc \notin {"perm_prompt", "fix_prompt"}
    /\ (pc = "run" /\ site = "sudo") => AnsweredYes

C9_Witness ==
    /\ pc = "flow_end"
    /\ AnsweredYes
    /\ f_retry \in RunOutcomes
    /\ f_retry.exit_code # 0
    /\ Times("fix_prompt") = 1

\* C10: after any answer to the elevation prompt other than y or yes, no
\* elevated command is run; the flow shows the fix offer with the exit code
\* of the original run, and an accepted offer hands the original command,
\* exit code and captured stderr to the analysis.
C10_DeclineGoesToFixOffer ==
    (InFlow /\ AnsweredNo) =>
        /\ SubSeq(events, 1, 2) = <<"perm_prompt", "fix_prompt">>
        /\ Times("retry") = 0
        /\ f_retry = NoResult
        /\ ~(pc = "run" /\ site = "sudo")
        /\ pc # "retry_fix_prompt"
        /\ shown_exit = f_result.exit_code
        /\ (pc = "ai" /\ ai_site = "fixai") =>
               error_context = [cmd |-> f_cmd,
                                exit_code |-> f_result.exit_code,
                                stderr |-> f_result.captured_stderr]

C10_Witness ==
    /\ pc = "ai"
    /\ ai_site = "fixai"
    /\ AnsweredNo
    /\ perm_choice.v = <<>>
    /\ error_context.exit_code = 255
    /\ IsPermissionError(error_context.stderr)

\* The last entry of the log of the flow.
LastEvent == events[Len(events)]

\* C11: the suggested command is run through run_bash (call site "fix"), and
\* when that run returns, with exit code 0 or not, the flow is over: no
\* prompt, AI call or run follows it.  One flow has at most one call of
\* call_claude, at most one elevated retry and at most one run of a
\* suggested command.
C11_FixRunIsTerminal ==
    /\ Times("ai") <= 1
    /\ Times("retry") <= 1
    /\ Times("fix_run") <= 1
    /\ (pc = "run" /\ site = "fix") =>
           (LastEvent = "fix_run" /\ run_cmd = suggested_cmd)
    /\ \A i \in 1..Len(events) :
           events[i] \in {"fix_ok", "fix_failed"} =>
               /\ i = Len(events)
               /\ events[i - 1] = "fix_run"
               /\ pc = "flow_end"

C11_Witness ==
    /\ pc = "flow_end"
    /\ LastEvent = "fix_failed"
    /\ Times("retry") = 1
    /\ Times("ai") = 1

\* The answer a declined what its prompt offered.
Declined(a) == a.declined

\* The flow is over right after the answer a: a was the last answer, its
\* prompt is the last entry of the log, and offer_error_help returns.
EndedBy(i) ==
    /\ i = Len(answers)
    /\ LastEvent = answers[i].at
    /\ pc = "flow_end"

\* C12 as stated: a decline at any prompt of the flow, the elevation prompt
\* included, ends the flow with no further prompt, run or AI call.
C12_EveryDeclineEndsFlow ==
    \A i \in 1..Len(answers) : Declined(answers[i]) => EndedBy(i)

\* C12 as amended: a decline at a fix offer or at the prompt for the
\* suggested command ends the flow with no further prompt, run or AI call;
\* a decline at the elevation prompt is followed by the fix offer for the
\* original failure and by no elevated run, and only an accepted fix offer
\* lets anything follow that offer.
C12_DeclineEndsFlow ==
    \A i \in 1..Len(answers) :
        Declined(answers[i]) =>
            IF answers[i].at = "perm_prompt"
            THEN /\ i = 1
                 /\ SubSeq(events, 1, 2) = <<"perm_prompt", "fix_prompt">>
                 /\ Times("retry") = 0
                 /\ Len(events) > 2 =>
                        (Len(answers) >= 2 /\ ~Declined(answers[2]))
            ELSE EndedBy(i)

C12_Witness ==
    /\ Len(answers) = 3
    /\ Declined(answers[1])
    /\ ~Declined(answers[2])
    /\ Declined(answers[3])
    /\ answers[3].at = "run_prompt"
    /\ pc = "flow_end"

\* C13: when every prompt is answered and every run_bash and call_claude
\* call returns, a recovery flow that was entered is left again, whatever the
\* answers, replies and results are; one flow has at most seven entries in
\* its log and reads at most three answers.
C13_FlowTerminates ==
    /\ [](Len(events) <= 7 /\ Len(answers) <= 3)
    /\ InFlow ~> ~InFlow

C13_Witness ==
    /\ pc = "flow_end"
    /\ Len(events) = 7
    /\ Len(answers) = 3

\* call_claude has returned to do_ai_error_analysis.
Diagnosed == InFlow /\ Times("ai") = 1 /\ ~(pc = "ai" /\ ai_site = "fixai")

\* C14: when the reply, stripped of its fences, has no blank line, the whole
\* stripped reply is printed as explanation, no command is suggested, no run
\* prompt is shown and nothing is run; when call_claude returns nothing,
\* do_ai_error_analysis prints nothing and runs nothing.  In both cases
\* offer_error_help returns to the loop as after any other flow.
C14_ExplanationOnly ==
    Diagnosed =>
        /\ help \in AiReplies
        /\ ~help.some =>
               /\ pc = "flow_end"
               /\ shown_expl = <<>>
               /\ suggested_cmd = <<>>
               /\ Times("run_prompt") = 0
               /\ Times("fix_run") = 0
               /\ exit_status = -1
        /\ (help.some /\ Find(strip_code_fences(help.v), BLANK_LINE) = 0) =>
               /\ pc = "flow_end"
               /\ shown_expl = strip_code_fences(help.v)
               /\ suggested_cmd = <<>>
               /\ LastEvent = "ai"
               /\ exit_status = -1

C14_Witness ==
    /\ Diagnosed
    /\ help.some
    /\ Find(help.v, <<10>>) > 0
    /\ Find(strip_code_fences(help.v), BLANK_LINE) = 0
    /\ shown_expl = help.v

\* The exit code of the line handled last, as the loop that read it holds it.
LineExit == IF stack # <<>> THEN stack[Len(stack)] ELSE last_exit

\* C15: in a session that found no claude CLI, call_claude is never called,
\* and a line classified NaturalLanguage is done at once, in every mode that
\* classifies lines: a not-found message is printed and the exit code of the
\* line is 127; if the session ends there, its exit status is 127.
C15_UnavailableFailsFast ==
    ~claude_available =>
        /\ pc # "ai"
        /\ ai_site = "none"
        /\ line_kind = "NaturalLanguage" =>
               /\ pc \in {"loop", "exited"}
               /\ printed \in {"command not found",
                               "not a recognized command and claude CLI is unavailable"}
               /\ LineExit = 127
               /\ pc = "exited" => exit_status = 127

C15_Witness ==
    /\ ~claude_available
    /\ line_kind = "NaturalLanguage"
    /\ mode = "piped"
    /\ pc = "exited"
    /\ exit_status = 127

\* The thirteen variants of InputKind (lines 548-562).
Variants ==
    { "Exit", "Help", "Cd", "Export", "Unset", "Source", "History", "Comment",
      "ForceBash", "Explain", "Ask", "ShellCommand", "NaturalLanguage" }

RuleMatches(n, line) ==
    CASE n = 1 -> line # <<>> /\ line[1] = 35
      [] n = 2 -> \/ line \in { <<101, 120, 105, 116>>, <<113, 117, 105, 116>>,
                                 <<108, 111, 103, 111, 117, 116>> }
                  \/ Take(line, 5) = <<101, 120, 105, 116, 32>>
      [] n = 3 -> line \in { <<104, 101, 108, 112>>,
                             <<104, 105, 115, 116, 111, 114, 121>> }
      [] n = 4 -> Take(line, 1) = <<33>> /\ Trim(Drop(line, 1)) # <<>>
      [] n = 5 -> Take(line, 2) = <<63, 63>> /\ Trim(Drop(line, 2)) # <<>>
      [] n = 6 -> Take(line, 1) = <<63>> /\ Trim(Drop(line, 1)) # <<>>
      [] n = 7 -> line = <<99, 100>> \/ Take(line, 3) = <<99, 100, 32>>
      [] n = 8 -> Take(line, 7) = <<101, 120, 112, 111, 114, 116, 32>>
      [] n = 9 -> Take(line, 6) = <<117, 110, 115, 101, 116, 32>>
      [] n = 10 -> \/ Take(line, 7) = <<115, 111, 117, 114, 99, 101, 32>>
                   \/ Take(line, 2) = <<46, 32>>
      [] n = 11 -> TRUE

\* What rule n gives for a line it matches.
RuleResult(n, line, path_commands) ==
    CASE n = 1 -> Kind("Comment", <<>>)
      [] n = 2 -> [kind |-> "Exit", arg |-> <<>>,
                   code |-> IF Len(line) > 4 THEN ParseI32(Trim(Drop(line, 4)))
                            ELSE NoneInt]
      [] n = 3 -> IF Len(line) = 4 THEN Kind("Help", <<>>) ELSE Kind("History", <<>>)
      [] n = 4 -> Kind("ForceBash", Trim(Drop(line, 1)))
      [] n = 5 -> Kind("Ask", Trim(Drop(line, 2)))
      [] n = 6 -> Kind("Explain", Trim(Drop(line, 1)))
      [] n = 7 -> Kind("Cd", Trim(Drop(line, 2)))
      [] n = 8 -> Kind("Export", Trim(Drop(line, 6)))
      [] n = 9 -> Kind("Unset", Trim(Drop(line, 5)))
      [] n = 10 -> Kind("Source", Trim(Drop(line, IF line[1] = 46 THEN 1 ELSE 6)))
      [] n = 11 -> IF is_shell_command(line, path_commands)
                   THEN Kind("ShellCommand", line)
                   ELSE Kind("NaturalLanguage", line)

\* The first rule, in the order 1 to 11, that matches the line.
FirstRule(line) ==
    CHOOSE n \in 1..11 :
        RuleMatches(n, line) /\ \A m \in 1..(n - 1) : ~RuleMatches(m, line)

\* C17: for every line, what classify_input returns is what the first rule
\* that matches, in the order 1 to 11, gives: an earlier rule that matches
\* takes precedence over every later one.
C17_FirstMatchingRule ==
    cpc \in {"mid", "done"} =>
        c_out = RuleResult(FirstRule(c_input), c_input, c_paths)

\* classify_input has returned on "?? x", a line that the rules of "??", of "?"
\* and the last rule all match, and on which the rule of "??" gave the result.
C17_Witness ==
    /\ cpc = "done"
    /\ c_input = <<63, 63, 32, 120>>
    /\ RuleMatches(5, c_input) /\ RuleMatches(6, c_input) /\ RuleMatches(11, c_input)
    /\ c_out = Kind("Ask", <<120>>)

\* The sentinels: / . ~ ( { [ $ < >
Sentinels == {47, 46, 126, 40, 123, 91, 36, 60, 62}

\* classify_input has returned on a line whose first character is a sentinel.
ClassifiedSentinelLine ==
    /\ cpc \in {"mid", "done"}
    /\ c_input # <<>>
    /\ c_input[1] \in Sentinels

\* C18 as stated: for every line whose first character is one of the
\* sentinels, classify_input yields ShellCommand.
C18_SentinelIsShellCommand ==
    ClassifiedSentinelLine => c_out.kind = "ShellCommand"

\* C18: for every line whose first character is one of the sentinels,
\* classify_input yields ShellCommand holding the line, except for the lines
\* that begin with a dot and a space, which are Source of the trimmed rest.
C18_SentinelOrDotSource ==
    ClassifiedSentinelLine =>
        IF Take(c_input, 2) = <<46, 32>>
        THEN c_out = Kind("Source", Trim(Drop(c_input, 2)))
        ELSE c_out = Kind("ShellCommand", c_input)

\* classify_input has returned ShellCommand on "~", which only its first
\* character makes a shell command, and which PATH does not hold.
C18_Witness ==
    /\ ClassifiedSentinelLine
    /\ c_input = <<126>>
    /\ c_paths = {}
    /\ c_out = Kind("ShellCommand", <<126>>)

\* A byte of a variable name: A-Z, a-z, 0-9 or the underscore.
NameByte(b) == b \in (65..90) \cup (97..122) \cup (48..57) \cup {95}

\* The line begins with one or more name bytes immediately followed by "=".
BeginsWithAssignment(line) ==
    \E k \in 1..(Len(line) - 1) :
        /\ line[k + 1] = 61
        /\ \A i \in 1..k : NameByte(line[i])

\* C19: for every line that begins with one or more ASCII alphanumerics or
\* underscores immediately followed by "=", classify_input yields
\* ShellCommand holding the line verbatim.
C19_AssignmentIsShellCommand ==
    (cpc \in {"mid", "done"} /\ BeginsWithAssignment(c_input)) =>
        c_out = Kind("ShellCommand", c_input)

\* classify_input has returned ShellCommand on "A0=x", with a digit in the
\* name, while PATH holds no command.
C19_Witness ==
    /\ cpc = "done"
    /\ c_input = <<65, 48, 61, 120>>
    /\ BeginsWithAssignment(c_input)
    /\ c_paths = {}
    /\ c_out = Kind("ShellCommand", c_input)

\* The line is the marker, a space and a non-empty text x with no white space
\* around it.
MarkedLine(line, marker) ==
    LET x == Drop(line, Len(marker) + 1) IN
    /\ Take(line, Len(marker) + 1) = marker \o <<32>>
    /\ x # <<>>
    /\ Trim(x) = x

\* C20: for every non-empty x the line "?? x" classifies as Ask(x) and the
\* line "? x" classifies as Explain(x), and no line that begins with "??" is
\* classified Explain.
C20_AskBeforeExplain ==
    cpc \in {"mid", "done"} =>
        /\ MarkedLine(c_input, <<63, 63>>) => c_out = Kind("Ask", Drop(c_input, 3))
        /\ MarkedLine(c_input, <<63>>) => c_out = Kind("Explain", Drop(c_input, 2))
        /\ Take(c_input, 2) = <<63, 63>> => c_out.kind # "Explain"

\* What follows the "!" of a line, trimmed.
BangRemainder(line) == Trim(Drop(line, 1))

\* C21: every line that begins with "!" followed, with or without a space, by
\* a non-empty remainder classifies as ForceBash of the remainder, whatever
\* rule the remainder alone would match.
C21_BangForcesShell ==
    (/\ cpc \in {"mid", "done"}
     /\ Take(c_input, 1) = <<33>>
     /\ BangRemainder(c_input) # <<>>)
        => c_out = Kind("ForceBash", BangRemainder(c_input))

\* classify_input has returned ForceBash("cd x") on "! cd x", whose remainder
\* alone is a Cd line.
C21_Witness ==
    /\ cpc = "done"
    /\ c_input = <<33, 32, 99, 100, 32, 120>>
    /\ classify_input(BangRemainder(c_input), c_paths).kind = "Cd"
    /\ c_out = Kind("ForceBash", <<99, 100, 32, 120>>)

\* The first white-space delimited token of the line, cut at the first "|",
\* ";" or "&".
CutToken(line) ==
    LET t == TrimStart(line)
        stops == { i \in 1..Len(t) : IsSpace(t[i]) \/ t[i] \in {124, 59, 38} }
    IN IF stops = {} THEN t
       ELSE Take(t, (CHOOSE i \in stops : \A j \in stops : i <= j) - 1)

\* The four checks of the shell-likeness test.
SentinelCheck(line) == line # <<>> /\ line[1] \in Sentinels
AssignmentCheck(line) == BeginsWithAssignment(line)
PrefixCheck(line) == \E p \in COMMAND_PREFIXES : Take(line, Len(p)) = p
TokenCheck(line, path_commands) ==
    \/ CutToken(line) \in SHELL_BUILTINS
    \/ CutToken(line) \in path_commands
    \/ \E i \in 1..Len(CutToken(line)) : CutToken(line)[i] = 47

LooksLikeShell(line, path_commands) ==
    \/ SentinelCheck(line)
    \/ AssignmentCheck(line)
    \/ PrefixCheck(line)
    \/ TokenCheck(line, path_commands)

\* C26: a line that reaches the shell-likeness test is classified
\* ShellCommand if and only if one of the four checks holds, and
\* NaturalLanguage otherwise; a first token that is in the path command set
\* gives ShellCommand whatever follows it, and "deploy the app to staging"
\* gives NaturalLanguage while deploy is not in the set.
C26_ShellLikeness ==
    (cpc \in {"mid", "done"} /\ FirstRule(c_input) = 11) =>
        /\ c_out = IF LooksLikeShell(c_input, c_paths)
                   THEN Kind("ShellCommand", c_input)
                   ELSE Kind("NaturalLanguage", c_input)
        /\ CutToken(c_input) \in c_paths => c_out.kind = "ShellCommand"
        /\ (/\ Take(c_input, 7) = <<100, 101, 112, 108, 111, 121, 32>>
            /\ <<100, 101, 112, 108, 111, 121>> \notin c_paths)
               => c_out.kind = "NaturalLanguage"

\* classify_input has returned ShellCommand on "ls|x", which only its cut
\* first token, a member of the path command set, makes a shell command.
C26_Witness ==
    /\ cpc = "done"
    /\ c_input = <<108, 115, 124, 120>>
    /\ FirstRule(c_input) = 11
    /\ ~SentinelCheck(c_input) /\ ~AssignmentCheck(c_input) /\ ~PrefixCheck(c_input)
    /\ CutToken(c_input) \in c_paths
    /\ c_out = Kind("ShellCommand", c_input)

\* ------------------------------------------------- claims on the drain loop

\* The drain thread is between two iterations of its loop, or past the loop.
AtChunkBoundary == dpc \in {"read", "done"}

\* The first min(Len(s), STDERR_CAPTURE_LIMIT) bytes of s.
Quota(s) == Take(s, Min(Len(s), STDERR_CAPTURE_LIMIT))

\* C27: at every chunk boundary of the drain loop the capture buffer is the
\* first min(n, STDERR_CAPTURE_LIMIT) bytes of the n bytes forwarded so far;
\* a chunk is forwarded before any of it is captured; once the buffer holds
\* STDERR_CAPTURE_LIMIT bytes it never changes again in the run, while
\* forwarding goes on to the end of the stream.
C27_CaptureIsPrefixOfForwarded ==
    /\ [](AtChunkBoundary => captured = Quota(term))
    /\ [](dpc = "forward" => captured = Quota(term))
    /\ [](dpc = "capture" =>
            /\ Len(term) >= Len(buf)
            /\ term = Take(term, Len(term) - Len(buf)) \o buf
            /\ captured = Quota(Take(term, Len(term) - Len(buf))))
    /\ []((dpc = "done" /\ ~rdErr) => term = sent)
    /\ [][(Len(captured) = STDERR_CAPTURE_LIMIT /\ rpc # "idle")
            => captured' = captured]_vars

\* The loop has ended with a full buffer, after more bytes were forwarded
\* than the buffer holds: one of the chunks was cut at the limit.
C27_Witness ==
    /\ dpc = "done"
    /\ ~rdErr
    /\ Len(captured) = STDERR_CAPTURE_LIMIT
    /\ Len(term) > STDERR_CAPTURE_LIMIT
    /\ term = sent

RememberedExit == IF stack # <<>> THEN stack[Len(stack)] ELSE last_exit

\* C22: in every mode the line "exit N" ends the session with exit code N,
\* and a bare "exit" ends it with the exit code of the command executed
\* before it.
C22_ExitLineCode ==
    ended = "exit" =>
        exit_status = IF line_code.some THEN line_code.v ELSE RememberedExit

\* The prompts that ask whether a command written by the AI is to be run: run
\* / edit / skip for a generated command and its edit line, run / skip for a
\* suggested fix.
ConfirmationPrompts == {"nl_prompt", "nl_edit", "run_prompt"}

\* C24: with config.yolo set, no prompt stands between a command written by
\* the AI and its run_bash call, for a command generated from natural
\* language as for a command suggested by the diagnosis of a failure.
C24_YoloRunsUnprompted ==
    yolo => pc \notin ConfirmationPrompts

\* A step that reads a blank line, a comment line or an interrupt.
SkipStep ==
    /\ nlines' = nlines + 1
    /\ line_kind' \in {"none", "Comment"}

\* C25: a session that ends at the end of its input exits with the exit code
\* of the last executed line, the code its loop remembers, and with 0 when no
\* line was executed; blank lines, comment lines and an interrupted prompt
\* leave the remembered exit code unchanged.
C25_EndOfInputCode ==
    /\ [](ended = "eof" => exit_status = last_exit)
    /\ []((ended = "eof" /\ ~executed) => exit_status = 0)
    /\ [](~executed => last_exit = 0)
    /\ [][SkipStep => (last_exit' = last_exit /\ stack' = stack)]_vars

\* The session has ended at the end of its input after a line that failed and
\* a blank line, a comment or an interrupt after it; it exits with the code
\* of the line that failed.
C25_Witness ==
    /\ ended = "eof"
    /\ executed
    /\ line_kind \in {"none", "Comment"}
    /\ last_exit # 0
    /\ exit_status = last_exit

\* The fix offers of the recovery flow: the offer for the original failure
\* and the offer after a failed elevation retry.
FixOffers == {"fix_prompt", "retry_fix_prompt"}

\* C29: at every fix offer, the one for the original failure and the one after
\* a failed elevation retry, the answer f or fix starts the AI diagnosis, and
\* any other answer ends the flow with no AI call.
C29_FixOfferAnswers ==
    [][(pc \in FixOffers /\ answers' # answers) =>
          IF Declined(answers'[Len(answers')])
          THEN pc' = "flow_end" /\ events' = events
          ELSE pc' = "ai" /\ ai_site' = "fixai"]_vars

\* A step that calls run_bash.
CallsRunBash == pc # "run" /\ pc' = "run"

\* The answers that say yes to running a generated command: the empty answer,
\* r, run, y and yes.
SaidRun ==
    { <<>>, <<114>>, <<114, 117, 110>>, <<121>>, <<121, 101, 115>> }

\* C30: without the yolo flag, every call of run_bash on a command the user
\* did not type (a generated command, a suggested fix, a sudo retry) is made
\* from a prompt the user answered affirmatively; the elevation prompt
\* defaults to no, so an empty answer never runs the elevated command; and the
\* elevated retry needs an explicit y or yes with the yolo flag as well.
C30_RunNeedsYes ==
    /\ [][(CallsRunBash /\ site' = "sudo") =>
             (pc = "perm_prompt" /\ perm_choice'.some
                /\ perm_choice'.v \in { <<121>>, <<121, 101, 115>> })]_vars
    /\ [][(pc = "perm_prompt" /\ perm_choice'.some /\ perm_choice'.v = <<>>) =>
             ~CallsRunBash]_vars
    /\ [][(~yolo /\ CallsRunBash /\ site' = "fix") =>
             (pc = "run_prompt" /\ ~Declined(answers'[Len(answers')]))]_vars
    /\ [][(~yolo /\ CallsRunBash /\ site' = "nl") =>
             \/ pc = "nl_edit"
             \/ (pc = "nl_prompt" /\ run_cmd' = gen_cmd
                   /\ nl_choice'.some /\ nl_choice'.v \in SaidRun)]_vars
    /\ []((pc = "run" /\ site = "sudo") => AnsweredYes)

\* Without the yolo flag a generated command was run on the user's yes and
\* failed, the elevation prompt was answered with an empty line and no
\* elevated run was made, and the suggested fix runs on the user's yes.
C30_Witness ==
    /\ ~yolo
    /\ line_kind = "NaturalLanguage" /\ f_cmd \notin { Trim(e) : e \in EditedLines }
    /\ perm_choice = Some(<<>>)
    /\ Times("retry") = 0
    /\ pc = "run" /\ site = "fix"
    /\ ~Declined(answers[Len(answers)])

\* The lines a session can read that classify as kind.
LinesOfKind(kind) ==
    { Trim(l) : l \in { x \in Lines : classify_input(Trim(x), PATH_COMMANDS).kind = kind } }

\* A step in which a line of one of the kinds is read and handled.
Handles(kinds) == pc = "loop" /\ nlines' = nlines + 1 /\ line_kind' \in kinds

\* A child process is running: run_bash or call_claude has not returned.
ChildRunning == pc \in {"run", "ai"}

\* C23: the session's current directory and environment change only in a step
\* that handles a cd, export or unset line (a sourced file's lines among
\* them), taken by the main loop while no child process runs; a ShellCommand
\* or ForceBash line goes to the shell as it was typed (without the bang) and
\* neither its handling nor the run of its command changes them.
C23_ContextChangesInBuiltinsOnly ==
    /\ [][(cwd' # cwd \/ env' # env) =>
             (Handles({"Cd", "Export", "Unset"}) /\ ~ChildRunning /\ ~ChildRunning')]_vars
    /\ [][Handles({"ShellCommand"}) =>
             (pc' = "run" /\ run_cmd' \in LinesOfKind("ShellCommand")
                /\ cwd' = cwd /\ env' = env)]_vars
    /\ [][Handles({"ForceBash"}) =>
             (/\ pc' = "run"
              /\ \E l \in LinesOfKind("ForceBash") : run_cmd' = Trim(Drop(l, 1))
              /\ cwd' = cwd /\ env' = env)]_vars
    /\ [][ChildRunning => (cwd' = cwd /\ env' = env)]_vars

\* The session changed its directory with cd, then ran the line A=b in the
\* shell: the run has returned (it failed, and help is offered), the
\* directory is the one cd gave, and A is no variable of the wrapper's
\* environment.
C23_Witness ==
    /\ cwd = <<47>> /\ env[PWD] = <<47>> /\ env[OLDPWD] = StartDir
    /\ line_kind = "ShellCommand" /\ f_cmd = <<65, 61, 98>>
    /\ pc = "fix_prompt"
    /\ <<65>> \notin DOMAIN env

\* The diagnostic context that names command cmd and the run result res.
ContextOf(cmd, res) ==
    [cmd |-> cmd, exit_code |-> res.exit_code, stderr |-> res.captured_stderr]

\* C33: while the AI diagnosis is under way, its context carries the original
\* command text, which has no sudo prefix when a retry was made, together
\* with the exit code and captured stderr of the elevation retry when the
\* diagnosis was asked for after a failed retry, and of the original failure
\* otherwise.
C33_DiagnosticContext ==
    (pc = "ai" /\ ai_site = "fixai") =>
        IF Times("retry") = 1
        THEN /\ error_context = ContextOf(f_cmd, f_retry)
             /\ ~StartsWith(f_cmd, SUDO)
             /\ f_retry.exit_code # 0
        ELSE /\ error_context = ContextOf(f_cmd, f_result)
             /\ f_result.exit_code # 0

\* The diagnosis is under way after an elevation retry that failed with
\* another exit code and another error text than the original run.
C33_Witness ==
    /\ pc = "ai" /\ ai_site = "fixai"
    /\ Times("retry") = 1
    /\ f_retry.exit_code # f_result.exit_code
    /\ f_retry.captured_stderr # f_result.captured_stderr
    /\ error_context.stderr = f_retry.captured_stderr

\* The prompts of the recovery flow.
RecoveryPrompts == {"perm_prompt", "fix_prompt", "retry_fix_prompt", "run_prompt"}

\* The exit codes run_bash can return.
RunExitCodes == { r.exit_code : r \in RunOutcomes }

C34_StatusIsLowByte ==
    /\ (ended = "exit" /\ line_code.some) =>
           /\ exit_status = line_code.v % 256
           /\ line_code.v = 256 => exit_status = 0
           /\ line_code.v = -1 => exit_status = 255
    /\ ended = "eof" => exit_status = last_exit % 256
    /\ pc = "exited" => exit_status \in 0..255

\* A piped session has ended with the line "exit -1" and the status 255.
C34_Witness ==
    /\ mode = "piped"
    /\ ended = "exit"
    /\ line_code = [some |-> TRUE, v |-> -1]
    /\ exit_status = 255

\* The first STDERR_CAPTURE_LIMIT bytes of an error stream.
CapturedPart(stream) == Take(stream, STDERR_CAPTURE_LIMIT)

\* C31: two failed runs of one command with the same exit code whose error
\* streams agree on their first STDERR_CAPTURE_LIMIT bytes give the same
\* RunResult and lead to the same prompts for the same answers, whatever the
\* streams hold after that; and a flow for a stream that has no
\* permission-denial text within those first bytes does not begin with the
\* elevation prompt.
C31_SamePromptsForSamePrefix ==
    /\ CapturedPart(tw_streams[1]) = CapturedPart(tw_streams[2]) =>
           /\ tw_res[1] = tw_res[2]
           /\ tw_pc[1] = tw_pc[2]
           /\ tw_shown[1] = tw_shown[2]
    /\ \A i \in 1..2 :
           (tw_shown[i] # <<>> /\ ~IsPermissionError(CapturedPart(tw_streams[i]))) =>
               tw_shown[i][1] # "perm_prompt"

\* The streams of the two runs agree on the captured part and differ after
\* it, where one of them has a permission-denial text; both flows have shown
\* the fix offer and then the prompt for the suggested command.
C31_Witness ==
    /\ tw_streams[1] # tw_streams[2]
    /\ CapturedPart(tw_streams[1]) = CapturedPart(tw_streams[2])
    /\ IsPermissionError(tw_streams[1])
    /\ ~IsPermissionError(tw_streams[2])
    /\ tw_shown[1] = <<"fix_prompt", "run_prompt">>
    /\ tw_shown[2] = <<"fix_prompt", "run_prompt">>

=============================================================================
